---- MODULE Spec2Model ----
(***************************************************************************)
(* RuleNavi: tree assembly from flat relational rows, directory creation,  *)
(* body-document resolution and conversion.                                *)
(*                                                                         *)
(* Text is modelled as a sequence of one-character strings, so that        *)
(* stripping, replacing, truncating and joining are computed character by  *)
(* character as the Python code computes them.                             *)
(***************************************************************************)
EXTENDS Integers, Sequences, FiniteSets, TLC

\* ------------------------------------------------------------------------
\* Bounds
\* ------------------------------------------------------------------------
\* longest free-form text drawn as sanitizer input (short part)
MaxLen == 3

\* ------------------------------------------------------------------------
\* Python values and text helpers
\* ------------------------------------------------------------------------
\* characters str.strip() removes
WS == {" ", "\t", "\n", "\r"}

\* Python objects that occur in a row cell: None, float('nan'), str, int.
\* s holds str(value) for everything but None.
PyNone == [t |-> "none", s |-> <<>>]
PyNaN == [t |-> "float", s |-> <<"n", "a", "n">>]
PyText(s) == [t |-> "str", s |-> s]
PyInt(digits) == [t |-> "int", s |-> digits]

\* str(v)
PyStr(v) == IF v.t = "none" THEN <<"N", "o", "n", "e">> ELSE v.s

RECURSIVE RStrip(_, _)
RStrip(s, set) ==
    IF s = <<>> THEN s
    ELSE IF s[Len(s)] \in set THEN RStrip(SubSeq(s, 1, Len(s) - 1), set)
    ELSE s

RECURSIVE LStrip(_, _)
LStrip(s, set) ==
    IF s = <<>> THEN s
    ELSE IF s[1] \in set THEN LStrip(SubSeq(s, 2, Len(s)), set)
    ELSE s

\* str.strip()
Strip(s) == RStrip(LStrip(s, WS), WS)

LowerChar(c) ==
    CASE c = "N" -> "n"
      [] c = "A" -> "a"
      [] OTHER -> c

\* str.lower()
Lower(s) == [i \in 1..Len(s) |-> LowerChar(s[i])]

\* s.replace(ch, "_") for every ch of set
ReplaceChars(s, set) == [i \in 1..Len(s) |-> IF s[i] \in set THEN "_" ELSE s[i]]

NanText == <<"n", "a", "n">>
Sentinel == <<"_">>

\* ------------------------------------------------------------------------
\* step2_p00: safe_segment / pick_segment
\* ------------------------------------------------------------------------
\* the regex class [<>:"/\\|?*]
ForbiddenChars == {"<", ">", ":", "\"", "/", "\\", "|", "?", "*"}

\* s[:80]
MaxSegLen == 80

TrailingBad == {" ", "."}

Truncate(s, n) == SubSeq(s, 1, IF Len(s) < n THEN Len(s) ELSE n)

safe_segment(v) ==
    LET s0 == IF v.t = "none" THEN <<>> ELSE Strip(PyStr(v))
    IN  IF s0 = <<>> \/ Lower(s0) = NanText THEN Sentinel
        ELSE LET s1 == RStrip(ReplaceChars(s0, ForbiddenChars), TrailingBad)
             IN  IF s1 # <<>> THEN Truncate(s1, MaxSegLen) ELSE Sentinel

RECURSIVE dir_pick_segment(_)
dir_pick_segment(cands) ==
    IF cands = <<>> THEN Sentinel
    ELSE LET seg == safe_segment(Head(cands))
         IN  IF seg # Sentinel THEN seg ELSE dir_pick_segment(Tail(cands))

\* ------------------------------------------------------------------------
\* step2_p02: pick_label / pick_segment
\* ------------------------------------------------------------------------
RECURSIVE pick_label(_)
pick_label(cands) ==
    IF cands = <<>> THEN Sentinel
    ELSE LET c == Head(cands)
             s == Strip(PyStr(c))
         IN  IF c.t = "none" THEN pick_label(Tail(cands))
             ELSE IF s # <<>> /\ Lower(s) # NanText THEN s
             ELSE pick_label(Tail(cands))

PickReplaced == {"\\", "/", ":", "*", "?", "\"", "<", ">", "|", "\t", "\n", "\r"}

\* a slip: the forbidden characters are not replaced (mutant of pick_segment)
pick_segment_no_replace(cands) ==
    LET s == RStrip(pick_label(cands), TrailingBad)
    IN  IF s # <<>> THEN s ELSE Sentinel

pick_segment(cands) ==
    LET s == RStrip(ReplaceChars(pick_label(cands), PickReplaced), TrailingBad)
    IN  IF s # <<>> THEN s ELSE Sentinel

\* ------------------------------------------------------------------------
\* Text comparison (Python compares str by code point)
\* ------------------------------------------------------------------------
\* the characters of the model, in code-point order
CharOrder == <<"\t", "\n", "\r", " ", "\"", "*", ".", "/", "1", "2", "3", "4",
               ":", "<", ">", "?", "A", "N", "\\", "_", "a", "b", "c", "d",
               "e", "f", "i", "j", "k", "l", "m", "n", "o", "p", "r", "s",
               "t", "u", "x", "y", "z", "|">>

Code(c) == CHOOSE i \in 1..Len(CharOrder) : CharOrder[i] = c

RECURSIVE LexLess(_, _)
LexLess(a, b) ==
    IF b = <<>> THEN FALSE
    ELSE IF a = <<>> THEN TRUE
    ELSE IF Code(Head(a)) # Code(Head(b)) THEN Code(Head(a)) < Code(Head(b))
    ELSE LexLess(Tail(a), Tail(b))

LexLeq(a, b) == a = b \/ LexLess(a, b)

\* ------------------------------------------------------------------------
\* Settings (setting.csv) and the joined rows read from SQLite
\* ------------------------------------------------------------------------
BuildDirName == <<"b", "u", "i", "l", "d">>
RulesDirName == <<"r", "u", "l", "e", "s">>
\* RULES_FILE_DIR values: a sub directory, or "." for none
RulesFileDirs == {<<"f">>, <<".">>}

T(str) == PyText(str)

\* category chains Type > Major > Sub as the three JOINs deliver them
\* (each level: primary key, path override, localized title, English title)
Chains == <<
    [key_cat_type |-> PyInt(<<"1">>), type_path |-> T(<<"a">>), type_jp |-> T(<<"b">>), type_en |-> T(<<"a">>),
     key_cat_major |-> PyInt(<<"1">>), major_path |-> T(<<"m">>), major_jp |-> PyNone, major_en |-> T(<<"m">>),
     key_cat_sub |-> PyInt(<<"1">>), sub_path |-> T(<<"s">>), sub_jp |-> PyNone, sub_en |-> PyNone],
    [key_cat_type |-> PyInt(<<"1">>), type_path |-> T(<<"a">>), type_jp |-> T(<<"b">>), type_en |-> T(<<"a">>),
     key_cat_major |-> PyInt(<<"2">>), major_path |-> PyNone, major_jp |-> T(<<"a">>), major_en |-> T(<<"k">>),
     key_cat_sub |-> PyInt(<<"2">>), sub_path |-> T(<<" ">>), sub_jp |-> PyNaN, sub_en |-> PyNone],
    [key_cat_type |-> PyInt(<<"2">>), type_path |-> PyNone, type_jp |-> PyNone, type_en |-> PyNaN,
     key_cat_major |-> PyInt(<<"3">>), major_path |-> T(<<"m">>), major_jp |-> PyNone, major_en |-> T(<<"m">>),
     key_cat_sub |-> PyInt(<<"3">>), sub_path |-> T(<<"?">>), sub_jp |-> PyNone, sub_en |-> T(<<"s">>)] >>

\* rules: id_rule, name_rule
RuleOpts == <<
    [id_rule |-> T(<<"b">>), name_rule |-> T(<<"A">>)],
    [id_rule |-> T(<<"a", "/", "b">>), name_rule |-> PyNone],
    [id_rule |-> T(<<"a", ":", "b">>), name_rule |-> PyNone],
    [id_rule |-> PyNone, name_rule |-> PyNone] >>

\* chapters (the caps CTE): id_cap, title_capter; NULL is the LEFT JOIN miss
CapOpts == <<
    [id_cap |-> PyNone, title_capter |-> PyNone],
    [id_cap |-> T(<<" ">>), title_capter |-> PyNone],
    [id_cap |-> T(<<"b">>), title_capter |-> T(<<"z">>)],
    [id_cap |-> T(<<"c">>), title_capter |-> T(<<"t">>)] >>

Digit(i) == CharOrder[Code("1") + i - 1]

MkRow(c, r, k) ==
    [ci |-> c, key_rule |-> PyInt(<<Digit(c), Digit(r)>>)]
    @@ Chains[c] @@ RuleOpts[r] @@ CapOpts[k]

RowSet == {MkRow(c, r, k) : c \in DOMAIN Chains, r \in DOMAIN RuleOpts, k \in DOMAIN CapOpts}

\* SQLite orders NULL first, then text by bytes
SqlLess(a, b) ==
    IF a.t = "none" THEN b.t # "none"
    ELSE IF b.t = "none" THEN FALSE
    ELSE LexLess(a.s, b.s)

\* ORDER BY type key, major key, sub key, id_rule, id_cap
RowLeq(x, y) ==
    LET kx == <<x.key_cat_type, x.key_cat_major, x.key_cat_sub, x.id_rule, x.id_cap>>
        ky == <<y.key_cat_type, y.key_cat_major, y.key_cat_sub, y.id_rule, y.id_cap>>
    IN  \/ kx = ky
        \/ \E i \in 1..5 : /\ \A j \in 1..(i - 1) : kx[j] = ky[j]
                           /\ SqlLess(kx[i], ky[i])

\* number of rows the query returns
MaxRows == 2

\* the rows of a result set, in ORDER BY order
RECURSIVE SortRows(_)
SortRows(S) ==
    IF S = {} THEN <<>>
    ELSE LET lo == CHOOSE x \in S : \A y \in S : RowLeq(x, y)
         IN  <<lo>> \o SortRows(S \ {lo})

\* a database is identified by the joined rows of step2_p02's query
\* (DISTINCT chapters per rule, so no row occurs twice)
RECURSIVE RowSetsUpTo(_)
RowSetsUpTo(n) ==
    IF n = 0 THEN {{}}
    ELSE LET P == RowSetsUpTo(n - 1) IN P \cup {S \cup {x} : S \in P, x \in RowSet}

RowSets == RowSetsUpTo(MaxRows) \ {{}}

\* SQL TRIM(x) removes spaces
SqlBlank(v) == v.t = "none" \/ RStrip(LStrip(v.s, {" "}), {" "}) = <<>>

NoCap(r) == [r EXCEPT !.id_cap = PyNone, !.title_capter = PyNone]

\* step2_p00's query over the same database: its caps CTE keeps only the
\* non-blank id_cap values (without the title), and the LEFT JOIN gives a
\* rule without any such chapter one row with id_cap NULL
DirRows(S) ==
    SortRows({[r EXCEPT !.title_capter = PyNone] : r \in {x \in S : ~SqlBlank(x.id_cap)}}
             \cup {NoCap(r) : r \in {x \in S : \A y \in S : y.key_rule = x.key_rule => SqlBlank(y.id_cap)}})

\* ------------------------------------------------------------------------
\* step2_p02: the node store
\* ------------------------------------------------------------------------
\* A node is a Python dict; the store maps object identity to the dict.
\* has_map says whether the dict has the "_map" key.
RootId == 1

NewNode(label, path) ==
    [label |-> label, path |-> path, children |-> <<>>, has_map |-> FALSE, map |-> <<>>]

RootLabel == <<"_", "_", "r", "o", "o", "t", "_", "_">>

\* root = {"label": "__root__", "path": "", "children": []}
InitNodes == <<NewNode(RootLabel, <<>>)>>

\* path.replace("\\", "/")
Slashes(s) == [i \in 1..Len(s) |-> IF s[i] = "\\" THEN "/" ELSE s[i]]

\* a slip: the lookup map is not consulted (mutant of ensure_child)
ensure_child_always_new(ns, parent, key, label, path) ==
    LET id == Len(ns) + 1
    IN  [nodes |-> Append([ns EXCEPT ![parent].has_map = TRUE,
                                     ![parent].map = (key :> id) @@ ns[parent].map,
                                     ![parent].children = Append(@, id)],
                          NewNode(label, Slashes(path))),
         id |-> id]

\* a slip: any existing child is returned, whatever the key
\* (mutant of ensure_child)
ensure_child_ignores_key(ns, parent, key, label, path) ==
    LET id == Len(ns) + 1
    IN  IF ns[parent].children # <<>>
        THEN [nodes |-> ns, id |-> ns[parent].children[1]]
        ELSE [nodes |-> Append([ns EXCEPT ![parent].has_map = TRUE,
                                          ![parent].map = (key :> id) @@ ns[parent].map,
                                          ![parent].children = Append(@, id)],
                               NewNode(label, Slashes(path))),
              id |-> id]

\* ensure_child(parent, key, label, path): the store afterwards and the
\* node returned
ensure_child(ns, parent, key, label, path) ==
    LET m == IF ns[parent].has_map THEN ns[parent].map ELSE <<>>
        id == Len(ns) + 1
    IN  IF key \in DOMAIN m
        THEN [nodes |-> [ns EXCEPT ![parent].has_map = TRUE, ![parent].map = m], id |-> m[key]]
        ELSE [nodes |-> Append([ns EXCEPT ![parent].has_map = TRUE,
                                          ![parent].map = (key :> id) @@ m,
                                          ![parent].children = Append(@, id)],
                               NewNode(label, Slashes(path))),
              id |-> id]

\* children.sort(key=lambda x: str(x.get("label", ""))): stable insertion
RECURSIVE InsertByLabel(_, _, _)
InsertByLabel(ns, sorted, id) ==
    IF sorted = <<>> THEN <<id>>
    ELSE IF LexLess(ns[id].label, ns[Head(sorted)].label) THEN <<id>> \o sorted
    ELSE <<Head(sorted)>> \o InsertByLabel(ns, Tail(sorted), id)

RECURSIVE SortByLabel(_, _)
SortByLabel(ns, ids) ==
    IF ids = <<>> THEN <<>>
    ELSE InsertByLabel(ns, SortByLabel(ns, SubSeq(ids, 1, Len(ids) - 1)), ids[Len(ids)])

RECURSIVE finalize_tree(_, _)
RECURSIVE finalize_each(_, _)

\* a slip: only the given node's children are sorted, no recursion into them
\* (mutant of finalize_tree)
finalize_tree_top_only(ns, id) ==
    [i \in DOMAIN ns |->
        IF i = id THEN [ns[i] EXCEPT !.children = SortByLabel(ns, ns[i].children),
                                     !.has_map = FALSE, !.map = <<>>]
        ELSE [ns[i] EXCEPT !.has_map = FALSE, !.map = <<>>]]

finalize_tree(ns, id) ==
    LET sorted == SortByLabel(ns, ns[id].children)
        ns1 == finalize_each([ns EXCEPT ![id].children = sorted], sorted)
    IN  [ns1 EXCEPT ![id].has_map = FALSE, ![id].map = <<>>]

\* for c in children: finalize_tree(c)
finalize_each(ns, ids) ==
    IF ids = <<>> THEN ns
    ELSE finalize_each(finalize_tree(ns, Head(ids)), Tail(ids))

\* ------------------------------------------------------------------------
\* Paths
\* ------------------------------------------------------------------------
Slash == <<"/">>

\* f"{a}/{b}"
Join(a, b) == a \o Slash \o b

RECURSIVE SplitAcc(_, _, _)
SplitAcc(s, sep, cur) ==
    IF s = <<>> THEN <<cur>>
    ELSE IF Head(s) = sep THEN <<cur>> \o SplitAcc(Tail(s), sep, <<>>)
    ELSE SplitAcc(Tail(s), sep, Append(cur, Head(s)))

IsPart(p) == p # <<>> /\ p # <<".">>

\* pathlib.Path(s).parts of a relative POSIX path: split at "/", empty and
\* "." components dropped
PathParts(s) == SelectSeq(SplitAcc(s, "/", <<>>), IsPart)

\* a directory and all its parents (mkdir(parents=True))
WithParents(parts) == {SubSeq(parts, 1, n) : n \in 1..Len(parts)}

\* sh.rules_file_dir_path: BUILD_DIR/RULES_DIR/RULES_FILE_DIR
rules_file_dir_path(rfd) == Join(Join(BuildDirName, RulesDirName), rfd)

\* the prefix of node paths in export_tree_json
Prefix(rfd) == IF Strip(rfd) \in {<<>>, <<".">>} THEN RulesDirName ELSE Join(RulesDirName, rfd)

\* ------------------------------------------------------------------------
\* step2_p00 main: one iteration of "for r in rows"
\* ------------------------------------------------------------------------
DirOfRow(rfd, r) ==
    LET type_seg == dir_pick_segment(<<r.type_path, r.type_en, r.key_cat_type>>)
        major_seg == dir_pick_segment(<<r.major_path, r.major_en, r.key_cat_major>>)
        sub_seg == dir_pick_segment(<<r.sub_path, r.sub_en, r.key_cat_sub>>)
        id_rule_seg == safe_segment(r.id_rule)
        base_dir == PathParts(rules_file_dir_path(rfd)) \o PathParts(type_seg) \o PathParts(major_seg)
                        \o PathParts(sub_seg) \o PathParts(id_rule_seg)
    IN  IF r.id_cap.t = "none" \/ Strip(PyStr(r.id_cap)) = <<>>
        THEN base_dir
        ELSE base_dir \o PathParts(safe_segment(r.id_cap))

\* fs: [dirs, manifest, made_dirs]
make_dir_row(fs, rfd, r) ==
    LET out_dir == DirOfRow(rfd, r)
    IN  [dirs |-> fs.dirs \cup WithParents(out_dir),
         manifest |-> Append(fs.manifest, [id_rule |-> r.id_rule, key_rule |-> r.key_rule,
                                           id_cap |-> r.id_cap, out_dir |-> out_dir]),
         made_dirs |-> IF out_dir \in fs.dirs THEN fs.made_dirs ELSE fs.made_dirs + 1]

\* ------------------------------------------------------------------------
\* step2_p02 export_tree_json: one iteration of "for _, row in df.iterrows()"
\* ------------------------------------------------------------------------
Tag(name) == name \o <<":">>
TypeTag == Tag(<<"t", "y", "p", "e">>)
MajorTag == Tag(<<"m", "a", "j", "o", "r">>)
SubTag == Tag(<<"s", "u", "b">>)
RuleTag == Tag(<<"r", "u", "l", "e">>)
CapTag == Tag(<<"c", "a", "p">>)

\* pd.notna(v)
NotNa(v) == v.t # "none" /\ v.t # "float"

\* a slip: a missing rule id handled like a missing chapter id, no segment
\* (mutant of RowSegs)
RowSegs_no_rule_sentinel(row) ==
    [type_seg |-> pick_segment(<<row.type_path, row.type_en>>),
     major_seg |-> pick_segment(<<row.major_path, row.major_en>>),
     sub_seg |-> pick_segment(<<row.sub_path, row.sub_en>>),
     rule_seg |-> IF NotNa(row.id_rule) THEN pick_segment(<<row.id_rule>>) ELSE <<>>,
     cap_seg |-> IF NotNa(row.id_cap) THEN pick_segment(<<row.id_cap>>) ELSE <<>>]

RowSegs(row) ==
    [type_seg |-> pick_segment(<<row.type_path, row.type_en>>),
     major_seg |-> pick_segment(<<row.major_path, row.major_en>>),
     sub_seg |-> pick_segment(<<row.sub_path, row.sub_en>>),
     rule_seg |-> pick_segment(<<row.id_rule>>),
     cap_seg |-> IF NotNa(row.id_cap) THEN pick_segment(<<row.id_cap>>) ELSE <<>>]

\* one level of a row: n = ensure_child(parent, tag + seg, label, path) with
\* path = f"{parent path}/{seg}"; acc carries the store, the parent node,
\* its path and the nodes the row was placed at so far
place_level(acc, tag, seg, label) ==
    LET e == ensure_child(acc.nodes, acc.parent, tag \o seg, label, Join(acc.path, seg))
    IN  [nodes |-> e.nodes, parent |-> e.id, path |-> Join(acc.path, seg),
         at |-> Append(acc.at, e.id)]

\* if cap_seg: ensure_child(n_rule, "cap:" + cap_seg, cap_label, cap_path)
place_cap(acc, row, cap_seg) ==
    IF cap_seg # <<>>
    THEN place_level(acc, CapTag, cap_seg, pick_label(<<row.title_capter, row.id_cap>>))
    ELSE [acc EXCEPT !.at = Append(@, 0)]

\* the five levels of a row with segments g, from the root down
place_row(ns, prefix, row, g) ==
    place_cap(
        place_level(
            place_level(
                place_level(
                    place_level([nodes |-> ns, parent |-> RootId, path |-> prefix, at |-> <<>>],
                                TypeTag, g.type_seg,
                                pick_label(<<row.type_jp, row.type_en, PyText(g.type_seg)>>)),
                    MajorTag, g.major_seg,
                    pick_label(<<row.major_jp, row.major_en, PyText(g.major_seg)>>)),
                SubTag, g.sub_seg,
                pick_label(<<row.sub_jp, row.sub_en, PyText(g.sub_seg)>>)),
            RuleTag, g.rule_seg,
            pick_label(<<row.name_rule, row.id_rule>>)),
        row, g.cap_seg)

\* the store afterwards and the nodes the row was placed at
\* (n_type, n_major, n_sub, n_rule and the chapter node, 0 when none)
export_row(ns, prefix, row) ==
    LET r == place_row(ns, prefix, row, RowSegs(row))
    IN  [nodes |-> r.nodes, at |-> r.at]

\* json.dumps(root["children"]) / json.loads: label, path, children of
\* every node below the root ("_map" is gone after finalize_tree)
NoJson == [top |-> <<>>, node |-> <<>>]

Serialize(ns) ==
    [top |-> ns[RootId].children,
     node |-> [i \in (DOMAIN ns) \ {RootId} |->
                 [label |-> ns[i].label, path |-> ns[i].path, children |-> ns[i].children]]]

\* ------------------------------------------------------------------------
\* State
\* ------------------------------------------------------------------------
VARIABLES
    pc,             \* position of the run
    db,             \* the SQLite content, as the set of joined rows
    rules_file_dir, \* setting RULES_FILE_DIR
    dir_rows,       \* step2_p00: rows fetched
    di,             \* step2_p00: index of the next row
    fs,             \* step2_p00: directories made, manifest, made_dirs
    df,             \* step2_p02: the DataFrame rows
    ri,             \* step2_p02: index of the next row
    nodes,          \* step2_p02: the node store (root and all dicts)
    placed,         \* step2_p02: per processed row, the nodes it was placed at
    tree_json,      \* step2_p02: the payload written to tree.json
    files,          \* body documents on disk: directory -> kind of content
    tree,           \* step2_p05: the tree loaded from tree.json
    stack,          \* step2_p05: iter_nodes' stack
    visited,        \* step2_p05: the nodes iter_nodes has yielded, in order
    count,          \* step2_p05: mark_and_collect_md_targets' count
    targets,        \* step2_p05: the (node, md_path) pairs collected
    ci,             \* step2_p05: index of the next target to convert
    html,           \* step2_p05: directories whose body.html was written
    site_out,       \* step2_p05: site artifacts written
    san_arg,        \* sanitizer check: the argument
    san_ret,        \* sanitizer check: results per function
    cfg_script,     \* settings check: the script run ("p02" or "p05")
    csv_ok,         \* settings check: setting.csv can be loaded
    settings,       \* settings check: setting.csv, key -> value cell
    disk,           \* settings check: files present before the run
    cfg,            \* settings check: the values resolved so far
    written,        \* settings check: files and directories the run wrote
    md_lines,       \* md_to_html: lines
    md_i,           \* md_to_html: index of the next line
    md,             \* md_to_html: out, in_code, list_open
    md_from,        \* md_to_html: per element of out, the line that emitted it
    TREE,           \* app.js: window.RULENAVI_TREE
    state,          \* app.js: state (selectedId, openSet, filter)
    localStorage,   \* app.js: the two durable-storage items
    page,           \* app.js: breadcrumb, viewer and the rendered tree rows
    leftw,          \* app.js: the CSS variable --leftw, in px
    dragging,       \* app.js: installSplitter's dragging flag
    ev,             \* app.js: the handler that ran last and its node
    listeners,      \* app.js: the splitter's listeners on window, by closure
    captured,       \* app.js: the pointers the splitter has captured
    pointers,       \* the pointers that are down
    vh,             \* app.js: the height of the content frame, in px
    inbox,          \* messages posted to the outer page, not yet delivered
    fdoc,           \* the embedded document: in the content frame or in a tab
    repeats         \* history: the last message delivered, and how often in a row

pipe_vars == <<db, rules_file_dir, dir_rows, di, fs, df, ri, nodes, placed, tree_json>>
site_vars == <<files, tree, stack, visited, count, targets, ci, html, site_out>>
san_vars == <<san_arg, san_ret>>
cfg_vars == <<cfg_script, csv_ok, settings, disk, cfg, written>>
md_vars == <<md_lines, md_i, md, md_from>>
ui_vars == <<TREE, state, localStorage, page, leftw, dragging, ev>>
split_vars == <<listeners, captured, pointers>>
frame_vars == <<vh, inbox, fdoc, repeats>>
ext_vars == <<cfg_vars, md_vars, ui_vars, split_vars, frame_vars>>
vars == <<pc, pipe_vars, site_vars, san_vars, ext_vars>>

NoFs == [dirs |-> {}, manifest |-> <<>>, made_dirs |-> 0]

PipeIdle ==
    /\ db = {}
    /\ rules_file_dir = <<".">>
    /\ dir_rows = <<>>
    /\ di = 0
    /\ fs = NoFs
    /\ df = <<>>
    /\ ri = 0
    /\ nodes = InitNodes
    /\ placed = <<>>
    /\ tree_json = NoJson

SiteIdle ==
    /\ files = <<>>
    /\ tree = NoJson
    /\ stack = <<>>
    /\ visited = <<>>
    /\ count = 0
    /\ targets = <<>>
    /\ ci = 0
    /\ html = {}
    /\ site_out = {}

SanIdle ==
    /\ san_arg = PyNone
    /\ san_ret = <<>>

CfgIdle ==
    /\ cfg_script = "none"
    /\ csv_ok = TRUE
    /\ settings = <<>>
    /\ disk = {}
    /\ cfg = <<>>
    /\ written = {}

MdIdle ==
    /\ md_lines = <<>>
    /\ md_i = 0
    /\ md = <<>>
    /\ md_from = <<>>

UiIdle ==
    /\ TREE = <<>>
    /\ state = <<>>
    /\ localStorage = <<>>
    /\ page = <<>>
    /\ leftw = 0
    /\ dragging = FALSE
    /\ ev = <<>>

SplitIdle ==
    /\ listeners = <<>>
    /\ captured = {}
    /\ pointers = {}

FrameIdle ==
    /\ vh = 0
    /\ inbox = <<>>
    /\ fdoc = <<>>
    /\ repeats = <<>>

ExtIdle ==
    /\ CfgIdle
    /\ MdIdle
    /\ UiIdle
    /\ SplitIdle
    /\ FrameIdle

\* ------------------------------------------------------------------------
\* The build run: step2_p00, then step2_p02
\* ------------------------------------------------------------------------
Init ==
    /\ pc = "p00_start"
    /\ db \in RowSets
    /\ rules_file_dir \in RulesFileDirs
    /\ dir_rows = <<>>
    /\ di = 0
    /\ fs = NoFs
    /\ df = <<>>
    /\ ri = 0
    /\ nodes = InitNodes
    /\ placed = <<>>
    /\ tree_json = NoJson
    /\ SiteIdle
    /\ SanIdle
    /\ ExtIdle

\* step2_p00 main up to the loop: out_root.mkdir, manifest opened, query run
P00Query ==
    /\ pc = "p00_start"
    /\ fs' = [fs EXCEPT !.dirs = @ \cup WithParents(PathParts(rules_file_dir_path(rules_file_dir)))]
    /\ dir_rows' = DirRows(db)
    /\ di' = 1
    /\ pc' = "p00_loop"
    /\ UNCHANGED <<db, rules_file_dir, df, ri, nodes, placed, tree_json, site_vars, san_vars, ext_vars>>

P00Row ==
    /\ pc = "p00_loop"
    /\ di <= Len(dir_rows)
    /\ fs' = make_dir_row(fs, rules_file_dir, dir_rows[di])
    /\ di' = di + 1
    /\ UNCHANGED <<pc, db, rules_file_dir, dir_rows, df, ri, nodes, placed, tree_json, site_vars, san_vars, ext_vars>>

\* manifest closed, conn.close()
P00Close ==
    /\ pc = "p00_loop"
    /\ di > Len(dir_rows)
    /\ pc' = "p02_start"
    /\ UNCHANGED <<pipe_vars, site_vars, san_vars, ext_vars>>

\* export_tree_json up to the loop: query run, root created
P02Query ==
    /\ pc = "p02_start"
    /\ df' = SortRows(db)
    /\ nodes' = InitNodes
    /\ ri' = 1
    /\ pc' = "p02_loop"
    /\ UNCHANGED <<db, rules_file_dir, dir_rows, di, fs, placed, tree_json, site_vars, san_vars, ext_vars>>

P02Row ==
    /\ pc = "p02_loop"
    /\ ri <= Len(df)
    /\ LET e == export_row(nodes, Prefix(rules_file_dir), df[ri])
       IN  /\ nodes' = e.nodes
           /\ placed' = Append(placed, e.at)
    /\ ri' = ri + 1
    /\ UNCHANGED <<pc, db, rules_file_dir, dir_rows, di, fs, df, tree_json, site_vars, san_vars, ext_vars>>

\* finalize_tree(root) and the JSON written
P02Finish ==
    /\ pc = "p02_loop"
    /\ ri > Len(df)
    /\ nodes' = finalize_tree(nodes, RootId)
    /\ tree_json' = Serialize(nodes')
    /\ pc' = "p02_done"
    /\ UNCHANGED <<db, rules_file_dir, dir_rows, di, fs, df, ri, placed, site_vars, san_vars, ext_vars>>

Next ==
    \/ P00Query
    \/ P00Row
    \/ P00Close
    \/ P02Query
    \/ P02Row
    \/ P02Finish

Spec == Init /\ [][Next]_vars

\* ------------------------------------------------------------------------
\* The sanitizers applied to arbitrary cell values
\* ------------------------------------------------------------------------
SanChars == {"a", "n", "N", " ", ".", "/", "*"}

Texts(n) == UNION {[1..k -> SanChars] : k \in 0..n}

RECURSIVE Pad(_)
Pad(n) == IF n = 0 THEN <<>> ELSE <<"a">> \o Pad(n - 1)

\* texts around the length limit: a long head followed by a short tail
LongTexts == {Pad(k) \o t : k \in {MaxSegLen - 2, MaxSegLen - 1, MaxSegLen}, t \in Texts(MaxLen)}

SanArgs == {PyNone, PyNaN} \cup {PyText(t) : t \in Texts(MaxLen) \cup LongTexts}

InitSan ==
    /\ pc = "san_start"
    /\ san_arg \in SanArgs
    /\ san_ret = <<>>
    /\ PipeIdle
    /\ SiteIdle
    /\ ExtIdle

\* step2_p00 safe_segment(san_arg)
CallSafeSegment ==
    /\ pc = "san_start"
    /\ san_ret' = [safe |-> safe_segment(san_arg)]
    /\ pc' = "san_safe"
    /\ UNCHANGED <<san_arg, pipe_vars, site_vars, ext_vars>>

\* step2_p02 pick_segment(san_arg)
CallPickSegment ==
    /\ pc = "san_start"
    /\ san_ret' = [pick |-> pick_segment(<<san_arg>>)]
    /\ pc' = "san_pick"
    /\ UNCHANGED <<san_arg, pipe_vars, site_vars, ext_vars>>

NextSan ==
    \/ CallSafeSegment
    \/ CallPickSegment

SpecSan == InitSan /\ [][NextSan]_vars

\* ------------------------------------------------------------------------
\* step2_p05: body documents, has_body marking, conversion, site output
\* ------------------------------------------------------------------------
\* textio.read_text_auto: the encodings tried, in order
Encodings == <<"utf-8", "utf-8-sig", "cp932">>

\* what a body.md on disk holds: UTF-8 text, CP932 text that is not valid
\* UTF-8, bytes no encoding of the list decodes (e.g. a lone 0x81), or the
\* name is taken by a directory
Kinds == {"utf8", "cp932", "binary", "dir"}

\* p.read_text(encoding=enc) succeeds
Decodes(kind, enc) ==
    \/ kind = "utf8"
    \/ kind = "cp932" /\ enc = "cp932"

\* read_text_auto(path): TRUE when some encoding decodes, FALSE when the
\* last error is raised
RECURSIVE TryEncodings(_, _)
TryEncodings(kind, encs) ==
    IF encs = <<>> THEN FALSE
    ELSE IF Decodes(kind, Head(encs)) THEN TRUE
    ELSE TryEncodings(kind, Tail(encs))

read_text_auto(kind) == TryEncodings(kind, Encodings)

RECURSIVE Reverse(_)
Reverse(q) == IF q = <<>> THEN <<>> ELSE Append(Reverse(Tail(q)), Head(q))

\* json.loads of the payload: no node has the has_body key yet (<<>>)
LoadTree(j) ==
    [top |-> j.top,
     node |-> [i \in DOMAIN j.node |->
                 [label |-> j.node[i].label, path |-> j.node[i].path,
                  children |-> j.node[i].children, has_body |-> <<>>]]]

BuildParts == <<BuildDirName>>

\* (build_dir / Path(rel)) for a node path, None when rel is empty
NodeDir(path) == BuildParts \o PathParts(path)

\* md_path.exists() and md_path.is_file()
IsBodyFile(fl, dir) == dir \in DOMAIN fl /\ fl[dir] # "dir"

\* a slip: is_file() not asked (mutant of HasBodyFile)
HasBodyFile_exists_only(fl, path) ==
    LET rel == Strip(path)
    IN  rel # <<>> /\ NodeDir(rel) \in DOMAIN fl

\* the has_body decision of mark_and_collect_md_targets for one node
HasBodyFile(fl, path) ==
    LET rel == Strip(path)
    IN  rel # <<>> /\ IsBodyFile(fl, NodeDir(rel))

\* the runs of step2_p00 and step2_p02 as functions of the database
RECURSIVE FoldDirs(_, _, _)
FoldDirs(f, rfd, rows) ==
    IF rows = <<>> THEN f ELSE FoldDirs(make_dir_row(f, rfd, Head(rows)), rfd, Tail(rows))

RunDirs(rfd, S) ==
    FoldDirs([NoFs EXCEPT !.dirs = WithParents(PathParts(rules_file_dir_path(rfd)))], rfd, DirRows(S))

RECURSIVE FoldRows(_, _, _)
FoldRows(acc, prefix, rows) ==
    IF rows = <<>> THEN acc
    ELSE LET e == export_row(acc.nodes, prefix, Head(rows))
         IN  FoldRows([nodes |-> e.nodes, placed |-> Append(acc.placed, e.at)], prefix, Tail(rows))

RunTree(rfd, S) ==
    LET r == FoldRows([nodes |-> InitNodes, placed |-> <<>>], Prefix(rfd), SortRows(S))
    IN  [nodes |-> finalize_tree(r.nodes, RootId), placed |-> r.placed]

\* databases of the site runs: two category chains, rules with and without
\* a chapter
SiteRowSet == {MkRow(c, r, k) : c \in {1, 2}, r \in {1}, k \in {1, 4}}

RECURSIVE SiteSetsUpTo(_)
SiteSetsUpTo(n) ==
    IF n = 0 THEN {{}}
    ELSE LET P == SiteSetsUpTo(n - 1) IN P \cup {S \cup {x} : S \in P, x \in SiteRowSet}

SiteDbs == SiteSetsUpTo(MaxRows) \ {{}}

SiteRulesFileDir == <<"f">>

\* the directories step2_p04 writes body documents to: per manifest row
\* the rule directory and, when the row has a chapter, the chapter directory
BodyDirs(f) ==
    {f.manifest[i].out_dir : i \in DOMAIN f.manifest}
    \cup {SubSeq(f.manifest[i].out_dir, 1, Len(f.manifest[i].out_dir) - 1) :
            i \in {k \in DOMAIN f.manifest : f.manifest[k].id_cap.t # "none"}}

\* state after step2_p00 and step2_p02 have run on the database
InitSite ==
    /\ pc = "supply"
    /\ db \in SiteDbs
    /\ rules_file_dir = SiteRulesFileDir
    /\ dir_rows = DirRows(db)
    /\ di = Len(dir_rows) + 1
    /\ fs = RunDirs(rules_file_dir, db)
    /\ df = SortRows(db)
    /\ ri = Len(df) + 1
    /\ nodes = RunTree(rules_file_dir, db).nodes
    /\ placed = RunTree(rules_file_dir, db).placed
    /\ tree_json = Serialize(nodes)
    /\ SiteIdle
    /\ SanIdle
    /\ ExtIdle

\* body documents supplied upstream (written by step2_p04 or by hand) in
\* some of the rule and chapter directories
SupplyBodies ==
    /\ pc = "supply"
    /\ \E D \in SUBSET BodyDirs(fs) : files' \in [D -> Kinds]
    /\ pc' = "p05_start"
    /\ UNCHANGED <<pipe_vars, tree, stack, visited, count, targets, ci, html, site_out, san_vars, ext_vars>>

\* main up to mark_and_collect_md_targets: site_dir made, tree.json loaded,
\* iter_nodes started (stack = list(tree))
P05Load ==
    /\ pc = "p05_start"
    /\ tree' = LoadTree(tree_json)
    /\ stack' = tree'.top
    /\ visited' = <<>>
    /\ count' = 0
    /\ targets' = <<>>
    /\ pc' = "p05_mark"
    /\ UNCHANGED <<pipe_vars, files, ci, html, site_out, san_vars, ext_vars>>

\* one iteration of "for n in iter_nodes(tree)"
MarkNode ==
    /\ pc = "p05_mark"
    /\ stack # <<>>
    /\ LET n == stack[Len(stack)]
           has == HasBodyFile(files, tree.node[n].path)
       IN  /\ visited' = Append(visited, n)
           /\ count' = count + 1
           /\ tree' = [tree EXCEPT !.node[n].has_body = <<has>>]
           /\ targets' = IF has
                         THEN Append(targets, [node |-> n, dir |-> NodeDir(Strip(tree.node[n].path))])
                         ELSE targets
           /\ stack' = SubSeq(stack, 1, Len(stack) - 1) \o Reverse(tree.node[n].children)
    /\ UNCHANGED <<pc, pipe_vars, files, ci, html, site_out, san_vars, ext_vars>>

\* iter_nodes exhausted: mark_and_collect_md_targets returns
MarkDone ==
    /\ pc = "p05_mark"
    /\ stack = <<>>
    /\ ci' = 1
    /\ pc' = "p05_convert"
    /\ UNCHANGED <<pipe_vars, files, tree, stack, visited, count, targets, html, site_out, san_vars, ext_vars>>

\* one iteration of convert_md_targets_to_html's loop: body.html written
ConvertTarget ==
    /\ pc = "p05_convert"
    /\ ci <= Len(targets)
    /\ read_text_auto(files[targets[ci].dir])
    /\ html' = html \cup {targets[ci].dir}
    /\ ci' = ci + 1
    /\ UNCHANGED <<pc, pipe_vars, files, tree, stack, visited, count, targets, site_out, san_vars, ext_vars>>

\* read_text_auto raises: nothing catches it in convert_md_targets_to_html
\* or in main, the process ends with the exception
ConvertRaise ==
    /\ pc = "p05_convert"
    /\ ci <= Len(targets)
    /\ ~read_text_auto(files[targets[ci].dir])
    /\ pc' = "p05_failed"
    /\ UNCHANGED <<pipe_vars, site_vars, san_vars, ext_vars>>

\* write_tree_data_js
WriteTreeData ==
    /\ pc = "p05_convert"
    /\ ci > Len(targets)
    /\ site_out' = site_out \cup {"tree_data.js"}
    /\ pc' = "p05_assets"
    /\ UNCHANGED <<pipe_vars, files, tree, stack, visited, count, targets, ci, html, san_vars, ext_vars>>

\* write_assets, copy_icon_if_exists
WriteAssets ==
    /\ pc = "p05_assets"
    /\ site_out' = site_out \cup {"assets"}
    /\ pc' = "p05_pages"
    /\ UNCHANGED <<pipe_vars, files, tree, stack, visited, count, targets, ci, html, san_vars, ext_vars>>

\* write_all_pages; return 0
WritePages ==
    /\ pc = "p05_pages"
    /\ site_out' = site_out \cup {"pages"}
    /\ pc' = "p05_done"
    /\ UNCHANGED <<pipe_vars, files, tree, stack, visited, count, targets, ci, html, san_vars, ext_vars>>

NextSite ==
    \/ SupplyBodies
    \/ P05Load
    \/ MarkNode
    \/ MarkDone
    \/ ConvertTarget
    \/ ConvertRaise
    \/ WriteTreeData
    \/ WriteAssets
    \/ WritePages

SpecSite == InitSite /\ [][NextSite]_vars

\* ------------------------------------------------------------------------
\* Properties of the tree assembly
\* ------------------------------------------------------------------------
Building == pc \in {"p02_loop", "p02_done"}

\* the segment of row r at level l (1 Type .. 5 Chapter), <<>> when the row
\* has no chapter
SegAt(r, l) ==
    LET g == RowSegs(r)
    IN  <<g.type_seg, g.major_seg, g.sub_seg, g.rule_seg, g.cap_seg>>[l]

\* the columns of row r that belong to level l
LevelCells(r, l) ==
    <<  <<r.key_cat_type, r.type_path, r.type_jp, r.type_en>>,
        <<r.key_cat_major, r.major_path, r.major_jp, r.major_en>>,
        <<r.key_cat_sub, r.sub_path, r.sub_jp, r.sub_en>>,
        <<r.key_rule, r.id_rule, r.name_rule>>,
        <<r.id_cap, r.title_capter>> >>[l]

\* the id column of the Rule and Chapter levels
LevelId(r, l) == IF l = 4 THEN r.id_rule ELSE r.id_cap

SameAbove(a, b, l) == \A k \in 1..(l - 1) : LevelCells(df[a], k) = LevelCells(df[b], k)

SameSegsUpTo(a, b, l) == \A k \in 1..l : SegAt(df[a], k) = SegAt(df[b], k)

\* the parent of node n in the store
ParentOf(n) == CHOOSE p \in DOMAIN nodes : \E i \in DOMAIN nodes[p].children : nodes[p].children[i] = n

\* C1: at any point of export_tree_json's loop and after it, no node has two
\* children with the same composite key (children of one node are of one
\* level, so: no two children with the same path segment), and two rows
\* whose chains of segments agree down to some level were given the very
\* same node at that level.
C1_NoDuplicateChild ==
    Building =>
        /\ \A n \in DOMAIN nodes : \A i, j \in DOMAIN nodes[n].children :
              i # j => /\ nodes[n].children[i] # nodes[n].children[j]
                       /\ nodes[nodes[n].children[i]].path # nodes[nodes[n].children[j]].path
        /\ \A a, b \in DOMAIN placed : \A l \in 1..5 :
              (SameSegsUpTo(a, b, l) /\ SegAt(df[a], l) # <<>>) => placed[a][l] = placed[b][l]

\* two rows of one rule with different chapters: the rule node is shared
C1_Witness ==
    /\ pc = "p02_done"
    /\ \E a, b \in DOMAIN placed :
          /\ a # b
          /\ placed[a][4] = placed[b][4]
          /\ placed[a][5] # 0 /\ placed[b][5] # 0 /\ placed[a][5] # placed[b][5]

\* C2 as stated: two rows identical at the upper levels and differing in the
\* id of the next level (Rule or Chapter, both ids present) share one node
\* per upper level and have two distinct children under the shared parent,
\* for every pair of differing ids.
C2_DistinctPerId ==
    pc = "p02_done" =>
        \A a, b \in DOMAIN placed : \A l \in 4..5 :
            (/\ SameAbove(a, b, l)
             /\ LevelId(df[a], l).t = "str" /\ LevelId(df[b], l).t = "str"
             /\ LevelId(df[a], l) # LevelId(df[b], l)) =>
                /\ \A k \in 1..(l - 1) : placed[a][k] = placed[b][k]
                /\ placed[a][l] # 0 /\ placed[b][l] # 0
                /\ placed[a][l] # placed[b][l]

\* C2 amended: two rows identical at the upper levels share one node per
\* upper level; at the next level a row has a child exactly when it has a
\* segment there (a null chapter id gives none), and the children of the two
\* rows are distinct exactly when their sanitized segments differ.
C2_DistinctPerSegment ==
    pc = "p02_done" =>
        \A a, b \in DOMAIN placed : \A l \in 1..5 :
            SameAbove(a, b, l) =>
                /\ \A k \in 1..(l - 1) : placed[a][k] = placed[b][k]
                /\ (placed[a][l] # 0) <=> (SegAt(df[a], l) # <<>>)
                /\ (placed[a][l] # 0 /\ placed[b][l] # 0) =>
                      ((placed[a][l] # placed[b][l]) <=> (SegAt(df[a], l) # SegAt(df[b], l)))

\* two rows of one Sub whose rule ids differ and give different segments:
\* one Type, Major and Sub node, two rule nodes
C2_Witness ==
    /\ pc = "p02_done"
    /\ \E a, b \in DOMAIN placed :
          /\ SameAbove(a, b, 4)
          /\ df[a].id_rule.t = "str" /\ df[b].id_rule.t = "str"
          /\ df[a].id_rule # df[b].id_rule
          /\ placed[a][3] = placed[b][3]
          /\ placed[a][4] # placed[b][4]

\* a text pick_segment can return: non-empty, none of the replaced
\* characters (so no separator), no trailing space or dot
IsSegment(g) ==
    /\ g # <<>>
    /\ \A i \in DOMAIN g : g[i] \notin PickReplaced
    /\ g[Len(g)] \notin TrailingBad

\* path = base "/" segment, for exactly one segment
OneSegmentBelow(path, base) ==
    /\ Len(path) > Len(base) + 1
    /\ SubSeq(path, 1, Len(base) + 1) = base \o Slash
    /\ IsSegment(SubSeq(path, Len(base) + 2, Len(path)))

\* C3 as stated: every non-root node's path is its parent's path joined by
\* "/" with exactly one sanitized segment, the top-level nodes included
\* (their parent is the root, path "").
C3_PathJoinsParent ==
    Building =>
        \A n \in (DOMAIN nodes) \ {RootId} : OneSegmentBelow(nodes[n].path, nodes[ParentOf(n)].path)

\* C3 amended: every node below the top level has its parent's path joined
\* by "/" with exactly one sanitized segment; a top-level (Type) node has the
\* configured prefix (RULES_DIR, or RULES_DIR/RULES_FILE_DIR), not the
\* root's empty path, joined by "/" with exactly one sanitized segment.
C3_PathJoinsParentOrPrefix ==
    Building =>
        \A n \in (DOMAIN nodes) \ {RootId} :
            IF ParentOf(n) = RootId
            THEN OneSegmentBelow(nodes[n].path, Prefix(rules_file_dir))
            ELSE OneSegmentBelow(nodes[n].path, nodes[ParentOf(n)].path)

\* a row whose rule id holds a separator character was placed, with a chapter
C3_Witness ==
    /\ pc = "p02_done"
    /\ \E a \in DOMAIN placed :
          /\ df[a].id_rule = T(<<"a", "/", "b">>)
          /\ placed[a][5] # 0

SortedByLabel(ns, ids) ==
    \A i \in 1..(Len(ids) - 1) : LexLeq(ns[ids[i]].label, ns[ids[i + 1]].label)

\* C4: after finalize_tree, the labels of the children of every node, the
\* root included, are in non-decreasing code-point order.
C4_ChildrenSorted ==
    pc = "p02_done" =>
        /\ \A n \in DOMAIN nodes : SortedByLabel(nodes, nodes[n].children)
        /\ SortedByLabel(nodes, tree_json.top)
        /\ \A n \in DOMAIN tree_json.node :
              \A i \in 1..(Len(tree_json.node[n].children) - 1) :
                  LexLeq(tree_json.node[tree_json.node[n].children[i]].label,
                         tree_json.node[tree_json.node[n].children[i + 1]].label)

\* below the root, a child created later sorts before one created earlier
C4_Witness ==
    /\ pc = "p02_done"
    /\ \E n \in (DOMAIN nodes) \ {RootId} : \E i \in 1..(Len(nodes[n].children) - 1) :
          /\ nodes[n].children[i] > nodes[n].children[i + 1]
          /\ nodes[nodes[n].children[i]].label # nodes[nodes[n].children[i + 1]].label

\* a null or blank cell: SQL NULL (None or NaN in the DataFrame), or empty
\* or whitespace-only text
Blank(v) == v.t \in {"none", "float"} \/ Strip(v.s) = <<>>

\* C6 as stated: a row whose chapter id is null or blank (empty or
\* whitespace-only text) gets no chapter node: the chain stops at the rule.
C6_NoChapterForBlankId ==
    Building =>
        \A a \in DOMAIN placed : Blank(df[a].id_cap) => placed[a][5] = 0

\* the cells a level's segment is picked from (levels 1..4)
SegCells(r, l) ==
    << <<r.type_path, r.type_en>>, <<r.major_path, r.major_en>>,
       <<r.sub_path, r.sub_en>>, <<r.id_rule>> >>[l]

LevelBlank(r, l) == \A i \in DOMAIN SegCells(r, l) : Blank(SegCells(r, l)[i])

\* the path a level-l node of row a hangs below
BaseOf(a, l) == IF l = 1 THEN Prefix(rules_file_dir) ELSE nodes[placed[a][l - 1]].path

\* C7: every row processed is placed (none dropped): it has a Type, Major,
\* Sub and Rule node, each the child of the one above; a level whose cells
\* are all null or blank is the node with segment "_" there; and a row with
\* a chapter id has its chapter node below the rule node, whatever levels
\* above are "_".
C7_BlankLevelKept ==
    Building =>
        /\ Len(placed) = ri - 1
        /\ \A a \in DOMAIN placed :
              /\ \A l \in 1..4 : placed[a][l] \in (DOMAIN nodes) \ {RootId}
              /\ ParentOf(placed[a][1]) = RootId
              /\ \A l \in 2..4 : ParentOf(placed[a][l]) = placed[a][l - 1]
              /\ \A l \in 1..4 :
                    LevelBlank(df[a], l) => nodes[placed[a][l]].path = Join(BaseOf(a, l), Sentinel)
              /\ ~Blank(df[a].id_cap) =>
                    /\ placed[a][5] \in DOMAIN nodes
                    /\ ParentOf(placed[a][5]) = placed[a][4]

\* a row without any Type cell and without rule id, with a chapter, was placed
C7_Witness ==
    /\ pc = "p02_done"
    /\ \E a \in DOMAIN placed :
          /\ LevelBlank(df[a], 1)
          /\ LevelBlank(df[a], 4)
          /\ ~Blank(df[a].id_cap)
          /\ placed[a][5] # 0

OutRoot == PathParts(rules_file_dir_path(rules_file_dir))

\* the node a row ends at: its chapter node, else its rule node
Deepest(a) == IF placed[a][5] # 0 THEN placed[a][5] ELSE placed[a][4]

\* C8 as stated: the directory tree of step2_p00 mirrors the node tree of
\* step2_p02: the directories made below the output root are exactly the
\* directories the node paths name (one per node), and the directory made
\* for a row's rule or chapter is the one its node's path names.
C8_DirsMirrorNodes ==
    pc = "p02_done" =>
        /\ {d \in fs.dirs : Len(d) > Len(OutRoot)}
              = {NodeDir(nodes[n].path) : n \in (DOMAIN nodes) \ {RootId}}
        /\ \A a \in DOMAIN placed :
              NodeDir(nodes[Deepest(a)].path) \in {fs.manifest[i].out_dir : i \in DOMAIN fs.manifest}

\* ------------------------------------------------------------------------
\* Properties of the site build
\* ------------------------------------------------------------------------
Marked == pc \in {"p05_convert", "p05_failed", "p05_assets", "p05_pages", "p05_done"}

Range(q) == {q[i] : i \in DOMAIN q}

\* C9: after mark_and_collect_md_targets every node was visited exactly
\* once and carries has_body; has_body is true exactly when the body
\* document is a file at build_dir / node.path / filename; the targets are
\* exactly the nodes with has_body true, each with that node's directory.
C9_HasBodyIffFile ==
    Marked =>
        /\ Range(visited) = DOMAIN tree.node
        /\ Len(visited) = Cardinality(DOMAIN tree.node)
        /\ count = Cardinality(DOMAIN tree.node)
        /\ \A n \in DOMAIN tree.node :
              tree.node[n].has_body = <<IsBodyFile(files, BuildParts \o PathParts(tree.node[n].path))>>
        /\ {targets[i].node : i \in DOMAIN targets} = {n \in DOMAIN tree.node : tree.node[n].has_body = <<TRUE>>}
        /\ Len(targets) = Cardinality({targets[i].node : i \in DOMAIN targets})
        /\ \A i \in DOMAIN targets :
              targets[i].dir = BuildParts \o PathParts(tree.node[targets[i].node].path)

\* a node with a body file, a node without, and a node whose body.md is a
\* directory
C9_Witness ==
    /\ Marked
    /\ \E n, m, k \in DOMAIN tree.node :
          /\ tree.node[n].has_body = <<TRUE>>
          /\ NodeDir(tree.node[m].path) \notin DOMAIN files
          /\ NodeDir(tree.node[k].path) \in DOMAIN files
          /\ files[NodeDir(tree.node[k].path)] = "dir"

AllSiteOut == {"tree_data.js", "assets", "pages"}

\* C10 as stated: a body document no encoding decodes fails alone: when the
\* run has ended, every other enqueued document has its body.html and the
\* tree payload, the assets and the pages are written.
C10_DecodeFailureScoped ==
    pc \in {"p05_done", "p05_failed"} =>
        /\ \A i \in DOMAIN targets :
              read_text_auto(files[targets[i].dir]) => targets[i].dir \in html
        /\ site_out = AllSiteOut

\* ------------------------------------------------------------------------
\* Properties of the sanitizers
\* ------------------------------------------------------------------------
SafeText(g) ==
    /\ g # <<>>
    /\ \A i \in DOMAIN g : g[i] \notin ForbiddenChars
    /\ g[Len(g)] \notin TrailingBad

\* C5: for every input, each path-segment sanitizer (safe_segment of
\* step2_p00, pick_segment of step2_p02) returns a non-empty text without
\* any of < > : " / \ | ? * and without a trailing space or dot.
C5_SanitizerTotal ==
    /\ pc = "san_safe" => SafeText(san_ret.safe)
    /\ pc = "san_pick" => SafeText(san_ret.pick)

\* ------------------------------------------------------------------------
\* Settings: how step2_p02 and step2_p05 resolve their configuration
\* ------------------------------------------------------------------------
\* a key whose row is not in setting.csv (DataFrame.at raises KeyError)
Absent == [t |-> "absent", s |-> <<>>]

\* the scalars the site build resolves
CfgKeys == {"BUILD_DIR", "JSON_MAIN_TREE", "MD_BODY_FILENAME", "SITE_TITLE", "SITE_ICON_FILE"}

\* a cell of setting.csv: no row, an empty cell (NaN), blank text, a name
CfgVals == {Absent, PyNaN, T(<<" ">>), T(<<"x">>)}

JsonDirName == <<"j", "s", "o", "n">>
HtmlDirName == <<"h", "t", "m", "l">>
ResrcDirName == <<"r", "e", "s">>
TreeJsonName == <<"t", "r", "e", "e", ".", "j", "s", "o", "n">>
BodyMdName == <<"b", "o", "d", "y", ".", "m", "d">>
BodyHtmlName == <<"b", "o", "d", "y", ".", "h", "t", "m", "l">>
SiteTitleDefault == <<"R", "u", "l", "e", "N", "a", "v", "i">>
IconName == <<"i", "c", "o", "n", ".", "p", "n", "g">>

\* the fallback of every resolve_* function
CfgDefault ==
    [BUILD_DIR |-> BuildDirName, JSON_MAIN_TREE |-> TreeJsonName,
     MD_BODY_FILENAME |-> BodyMdName, SITE_TITLE |-> SiteTitleDefault,
     SITE_ICON_FILE |-> IconName]

\* a slip: a blank value is returned as it is (mutant of get_setting)
get_setting_keeps_blank(st, key, default) ==
    IF st[key] = Absent THEN default
    ELSE IF st[key].t = "none" THEN default
    ELSE Strip(PyStr(st[key]))

\* get_setting(setting_csv, rs, key, default): the default on an exception
\* (no such key), on None and on blank text
get_setting(st, key, default) ==
    IF st[key] = Absent THEN default
    ELSE IF st[key].t = "none" THEN default
    ELSE IF Strip(PyStr(st[key])) # <<>> THEN Strip(PyStr(st[key]))
    ELSE default

\* setting_helper.rules_path: BUILD_DIR + "/" + RULES_DIR on the raw cells;
\* raises on a missing key (KeyError) and on an empty cell (float + str)
rules_path(st) ==
    IF st["BUILD_DIR"].t = "str"
    THEN [ok |-> TRUE, parts |-> <<st["BUILD_DIR"].s, RulesDirName>>]
    ELSE [ok |-> FALSE, parts |-> <<>>]

resolve_build_dir(st) == <<get_setting(st, "BUILD_DIR", BuildDirName)>>

\* resolve_site_dir: sh.rule_html_dirpath, or on an exception
\* build_dir / rules_dir / html_dir
resolve_site_dir(st, build_dir) ==
    IF rules_path(st).ok THEN Append(rules_path(st).parts, HtmlDirName)
    ELSE build_dir \o <<RulesDirName, HtmlDirName>>

\* resolve_tree_json_fullpath: sh.json_file_fullpath(setting_csv, name), or
\* on an exception build_dir / rules_dir / json_dir / name
resolve_tree_json_fullpath(st, build_dir) ==
    IF rules_path(st).ok
    THEN rules_path(st).parts \o <<JsonDirName, get_setting(st, "JSON_MAIN_TREE", TreeJsonName)>>
    ELSE build_dir \o <<RulesDirName, JsonDirName, get_setting(st, "JSON_MAIN_TREE", TreeJsonName)>>

\* step2_p02 main: rs.get_setting_value(JSON_MAIN_TREE) and
\* sh.json_file_fullpath on the raw cells; any of them may raise
p02_out_path(st) ==
    IF rules_path(st).ok /\ st["JSON_MAIN_TREE"].t = "str"
    THEN [ok |-> TRUE, parts |-> rules_path(st).parts \o <<JsonDirName, st["JSON_MAIN_TREE"].s>>]
    ELSE [ok |-> FALSE, parts |-> <<>>]

\* the one node of the tree the settings runs convert: its path
CfgNodePath == <<RulesDirName, <<"a">>>>

\* files that may be there before step2_p05 runs: tree.json under its
\* default and under a configured name, a body document, the icon
CfgDiskFiles ==
    {<<BuildDirName, RulesDirName, JsonDirName, TreeJsonName>>,
     <<<<"x">>, RulesDirName, JsonDirName, TreeJsonName>>,
     <<BuildDirName>> \o CfgNodePath \o <<BodyMdName>>,
     <<ResrcDirName, IconName>>}

InitCfg ==
    /\ pc = "cfg_start"
    /\ cfg_script \in {"p02", "p05"}
    /\ csv_ok \in BOOLEAN
    /\ settings \in [CfgKeys -> CfgVals]
    /\ csv_ok = FALSE => settings = [k \in CfgKeys |-> Absent]
    /\ disk \in SUBSET CfgDiskFiles
    /\ cfg_script = "p02" => disk = {}
    /\ cfg = <<>>
    /\ written = {}
    /\ PipeIdle
    /\ SiteIdle
    /\ SanIdle
    /\ MdIdle
    /\ UiIdle
    /\ SplitIdle
    /\ FrameIdle

\* rs.load_setting_csv() of either script: FileNotFoundError when there is
\* no setting.csv
CfgLoadCsv ==
    /\ pc = "cfg_start"
    /\ pc' = IF csv_ok THEN "cfg_loaded" ELSE "cfg_failed"
    /\ UNCHANGED <<pipe_vars, site_vars, san_vars, md_vars, ui_vars, split_vars, frame_vars, cfg_vars>>

\* step2_p02 main: the output path from the settings
CfgP02Main ==
    /\ pc = "cfg_loaded" /\ cfg_script = "p02"
    /\ IF p02_out_path(settings).ok
       THEN /\ cfg' = [out_path |-> p02_out_path(settings).parts]
            /\ pc' = "cfg_p02_export"
       ELSE /\ cfg' = cfg
            /\ pc' = "cfg_failed"
    /\ UNCHANGED <<pipe_vars, site_vars, san_vars, md_vars, ui_vars, split_vars, frame_vars, cfg_script, csv_ok, settings, disk, written>>

\* export_tree_json: settings, query, tree, then out_path written
CfgP02Export ==
    /\ pc = "cfg_p02_export"
    /\ written' = written \cup {cfg.out_path}
    /\ pc' = "cfg_done"
    /\ UNCHANGED <<pipe_vars, site_vars, san_vars, md_vars, ui_vars, split_vars, frame_vars, cfg_script, csv_ok, settings, disk, cfg>>

\* step2_p05 main: build_dir and site_dir resolved, site_dir.mkdir
CfgP05Dirs ==
    /\ pc = "cfg_loaded" /\ cfg_script = "p05"
    /\ cfg' = [build_dir |-> resolve_build_dir(settings),
               site_dir |-> resolve_site_dir(settings, resolve_build_dir(settings))]
    /\ written' = written \cup {cfg'.site_dir}
    /\ pc' = "cfg_p05_tree"
    /\ UNCHANGED <<pipe_vars, site_vars, san_vars, md_vars, ui_vars, split_vars, frame_vars, cfg_script, csv_ok, settings, disk>>

\* step2_p05 main: tree.json located; FileNotFoundError when it is not there
CfgP05Tree ==
    /\ pc = "cfg_p05_tree"
    /\ cfg' = cfg @@ [tree_json |-> resolve_tree_json_fullpath(settings, cfg.build_dir),
                      JSON_MAIN_TREE |-> get_setting(settings, "JSON_MAIN_TREE", TreeJsonName)]
    /\ pc' = IF cfg'.tree_json \in disk THEN "cfg_p05_md" ELSE "cfg_failed"
    /\ UNCHANGED <<pipe_vars, site_vars, san_vars, md_vars, ui_vars, split_vars, frame_vars, cfg_script, csv_ok, settings, disk, written>>

\* step2_p05 main: md_name resolved, targets marked and converted
CfgP05Convert ==
    /\ pc = "cfg_p05_md"
    /\ cfg' = cfg @@ [MD_BODY_FILENAME |-> get_setting(settings, "MD_BODY_FILENAME", BodyMdName)]
    /\ written' = IF cfg.build_dir \o CfgNodePath \o <<cfg'.MD_BODY_FILENAME>> \in disk
                  THEN written \cup {cfg.build_dir \o CfgNodePath \o <<BodyHtmlName>>}
                  ELSE written
    /\ pc' = "cfg_p05_data"
    /\ UNCHANGED <<pipe_vars, site_vars, san_vars, md_vars, ui_vars, split_vars, frame_vars, cfg_script, csv_ok, settings, disk>>

\* step2_p05 main: data/tree_data.js
CfgP05Data ==
    /\ pc = "cfg_p05_data"
    /\ written' = written \cup {Append(cfg.site_dir, <<"d", "a", "t", "a">>)}
    /\ pc' = "cfg_p05_assets"
    /\ UNCHANGED <<pipe_vars, site_vars, san_vars, md_vars, ui_vars, split_vars, frame_vars, cfg_script, csv_ok, settings, disk, cfg>>

\* step2_p05 main: assets written, icon name resolved, icon copied if there
CfgP05Assets ==
    /\ pc = "cfg_p05_assets"
    /\ cfg' = cfg @@ [SITE_ICON_FILE |-> get_setting(settings, "SITE_ICON_FILE", IconName)]
    /\ written' = written \cup {Append(cfg.site_dir, <<"a", "s", "s", "e", "t", "s">>)}
                    \cup (IF <<ResrcDirName, cfg'.SITE_ICON_FILE>> \in disk
                          THEN {cfg.site_dir \o <<<<"a", "s", "s", "e", "t", "s">>, cfg'.SITE_ICON_FILE>>}
                          ELSE {})
    /\ pc' = "cfg_p05_pages"
    /\ UNCHANGED <<pipe_vars, site_vars, san_vars, md_vars, ui_vars, split_vars, frame_vars, cfg_script, csv_ok, settings, disk>>

\* step2_p05 main: site title resolved, pages written
CfgP05Pages ==
    /\ pc = "cfg_p05_pages"
    /\ cfg' = cfg @@ [SITE_TITLE |-> get_setting(settings, "SITE_TITLE", SiteTitleDefault),
                      BUILD_DIR |-> cfg.build_dir[1]]
    /\ written' = written \cup {Append(cfg.site_dir, <<"i", "n", "d", "e", "x", ".", "h", "t", "m", "l">>)}
    /\ pc' = "cfg_done"
    /\ UNCHANGED <<pipe_vars, site_vars, san_vars, md_vars, ui_vars, split_vars, frame_vars, cfg_script, csv_ok, settings, disk>>

NextCfg ==
    \/ CfgLoadCsv
    \/ CfgP02Main
    \/ CfgP02Export
    \/ CfgP05Dirs
    \/ CfgP05Tree
    \/ CfgP05Convert
    \/ CfgP05Data
    \/ CfgP05Assets
    \/ CfgP05Pages

SpecCfg == InitCfg /\ [][NextCfg]_vars

\* ------------------------------------------------------------------------
\* Properties of the settings
\* ------------------------------------------------------------------------
\* the scalars a script resolves
CfgRequired(script) ==
    IF script = "p02" THEN {"BUILD_DIR", "JSON_MAIN_TREE"} ELSE CfgKeys

Unset(v) == v = Absent \/ (v.t = "str" /\ Strip(v.s) = <<>>)

MaxMdLines == 3

\* s.replace(ch, rep)
RECURSIVE ReplaceAll(_, _, _)
ReplaceAll(s, ch, rep) ==
    IF s = <<>> THEN <<>>
    ELSE (IF Head(s) = ch THEN rep ELSE <<Head(s)>>) \o ReplaceAll(Tail(s), ch, rep)

\* esc(s): & first, then < and >
esc(s) ==
    ReplaceAll(ReplaceAll(ReplaceAll(s, "&", <<"&", "a", "m", "p", ";">>),
                          "<", <<"&", "l", "t", ";">>),
               ">", <<"&", "g", "t", ";">>)

\* \w and \s of the patterns, over the characters drawn
WordChars == {"a", "b", "T", "g", "t", "_"}
SpaceChars == {" ", "\t"}

StartsWith(s, prefix) == Len(s) >= Len(prefix) /\ SubSeq(s, 1, Len(prefix)) = prefix

\* the backtick character (a TLA+ string cannot hold it)
BT == "backtick"

\* the fence pattern: three backticks, (\w+)?, \s*, end of line
IsFence(line) ==
    /\ StartsWith(line, <<BT, BT, BT>>)
    /\ LStrip(LStrip(SubSeq(line, 4, Len(line)), WordChars), SpaceChars) = <<>>

\* re.match(r"^\s*[-*]\s+(.*)$", line): whether it matches, and group(1)
m_li(line) ==
    LET rest == LStrip(line, SpaceChars)
    IN  IF /\ Len(rest) >= 2
           /\ rest[1] \in {"-", "*"}
           /\ rest[2] \in SpaceChars
        THEN [ok |-> TRUE, text |-> LStrip(Tail(rest), SpaceChars)]
        ELSE [ok |-> FALSE, text |-> <<>>]

\* one element of out: the markup written and the text inside it
Out(kind, text) == [kind |-> kind, text |-> text]

\* close_list(): "</ul>" when a list is open
close_list(st) ==
    IF st.list_open
    THEN [st EXCEPT !.out = Append(@, Out("/ul", <<>>)), !.list_open = FALSE]
    ELSE st

\* a slip: the opening fence leaves an open list open (mutant of fence_line)
fence_line_keeps_list(st) ==
    IF ~st.in_code
    THEN [st EXCEPT !.in_code = TRUE, !.out = Append(@, Out("pre", <<>>))]
    ELSE [st EXCEPT !.in_code = FALSE, !.out = Append(@, Out("/pre", <<>>))]

\* the fence branch: toggles in_code
fence_line(st) ==
    IF ~st.in_code
    THEN [close_list(st) EXCEPT !.in_code = TRUE, !.out = Append(@, Out("pre", <<>>))]
    ELSE [st EXCEPT !.in_code = FALSE, !.out = Append(@, Out("/pre", <<>>))]

\* a slip: every bullet opens a list (mutant of bullet_line)
bullet_line_reopens(st, text) ==
    [st EXCEPT !.out = @ \o <<Out("ul", <<>>), Out("li", esc(text))>>, !.list_open = TRUE]

\* the bullet branch
bullet_line(st, text) ==
    IF ~st.list_open
    THEN [st EXCEPT !.out = @ \o <<Out("ul", <<>>), Out("li", esc(text))>>, !.list_open = TRUE]
    ELSE [st EXCEPT !.out = Append(@, Out("li", esc(text)))]

\* the element a line that is no bullet gives outside a code block
plain_element(line) ==
    IF StartsWith(line, <<"#", "#", "#", " ">>) THEN Out("h3", esc(SubSeq(line, 5, Len(line))))
    ELSE IF StartsWith(line, <<"#", "#", " ">>) THEN Out("h2", esc(SubSeq(line, 4, Len(line))))
    ELSE IF StartsWith(line, <<"#", " ">>) THEN Out("h1", esc(SubSeq(line, 3, Len(line))))
    ELSE IF Strip(line) = <<>> THEN Out("sp", <<>>)
    ELSE Out("p", esc(line))

IsHeading(line) == StartsWith(line, <<"#", " ">>) \/ StartsWith(line, <<"#", "#", " ">>)
                       \/ StartsWith(line, <<"#", "#", "#", " ">>)

\* the branches below "if in_code": headings, bullets, blank, paragraph
text_line(st, line) ==
    IF ~IsHeading(line) /\ m_li(line).ok
    THEN bullet_line(st, m_li(line).text)
    ELSE [close_list(st) EXCEPT !.out = Append(@, plain_element(line))]

\* a slip: no test of in_code, the line is matched like any other
\* (mutant of code_line)
code_line_matched(st, line) == text_line(st, line)

\* the in_code branch: out.append(esc(line))
code_line(st, line) == [st EXCEPT !.out = Append(@, Out("code", esc(line)))]

\* the body of "for line in lines"
md_step(st, line) ==
    IF IsFence(line) THEN fence_line(st)
    ELSE IF st.in_code THEN code_line(st, line)
    ELSE text_line(st, line)

\* a slip: an unterminated fence is left open (mutant of md_finish)
md_finish_leaves_fence(st) == close_list(st)

\* after the loop: close_list(), and "</code></pre>" when still in a fence
md_finish(st) ==
    IF st.in_code
    THEN [close_list(st) EXCEPT !.out = Append(@, Out("/pre", <<>>))]
    ELSE close_list(st)

\* lines drawn: fences, headings, bullets, blank lines, text, and lines
\* that only look like one of them
MdLineSet ==
    {<<BT, BT, BT>>, <<BT, BT, BT, "a">>, <<BT, BT, BT, "a", " ", "b">>,
     <<"#", " ", "T">>, <<"#", "#", " ", "T">>, <<"#", "#", "#", " ", "T">>,
     <<"-", " ", "a">>, <<" ", "*", " ", " ", "b">>, <<"-", "a">>,
     <<>>, <<" ">>, <<"a", "&", "b">>, <<"<", "t", "a", "g", ">", "&">>}

\* the worked example of the documentation: heading, text and a list
MdExample ==
    << <<"#", " ", "T">>, <<>>, <<"a", "&", "b">>, <<>>, <<"-", " ", "a">>, <<"*", " ", "b">> >>

RECURSIVE MdDocsUpTo(_)
MdDocsUpTo(n) ==
    IF n = 0 THEN {<<>>}
    ELSE MdDocsUpTo(n - 1) \cup {Append(doc, l) : doc \in MdDocsUpTo(n - 1), l \in MdLineSet}

\* md_text.split("\n") gives at least one line
MdDocs == (MdDocsUpTo(MaxMdLines) \ {<<>>}) \cup {MdExample}

MdStart == [out |-> <<>>, in_code |-> FALSE, list_open |-> FALSE]

InitMd ==
    /\ pc = "md_loop"
    /\ md_lines \in MdDocs
    /\ md_i = 1
    /\ md = MdStart
    /\ md_from = <<>>
    /\ PipeIdle
    /\ SiteIdle
    /\ SanIdle
    /\ CfgIdle
    /\ UiIdle
    /\ SplitIdle
    /\ FrameIdle

\* one iteration of "for line in lines"
MdLine ==
    /\ pc = "md_loop"
    /\ md_i <= Len(md_lines)
    /\ md' = md_step(md, md_lines[md_i])
    /\ md_from' = md_from \o [k \in 1..(Len(md'.out) - Len(md.out)) |-> md_i]
    /\ md_i' = md_i + 1
    /\ UNCHANGED <<pc, md_lines, pipe_vars, site_vars, san_vars, cfg_vars, ui_vars, split_vars, frame_vars>>

\* end of input
MdEnd ==
    /\ pc = "md_loop"
    /\ md_i > Len(md_lines)
    /\ md' = md_finish(md)
    /\ md_from' = md_from \o [k \in 1..(Len(md'.out) - Len(md.out)) |-> 0]
    /\ pc' = "md_done"
    /\ UNCHANGED <<md_lines, md_i, pipe_vars, site_vars, san_vars, cfg_vars, ui_vars, split_vars, frame_vars>>

NextMd == MdLine \/ MdEnd

SpecMd == InitMd /\ [][NextMd]_vars

\* md_to_html run to the end under the scheduling of a sequential program
SpecMdFair == SpecMd /\ WF_vars(NextMd)

\* ------------------------------------------------------------------------
\* Properties of md_to_html
\* ------------------------------------------------------------------------
\* lines the loop has processed
MdProcessed == 1..(md_i - 1)

\* whether line i lies inside a fence: an odd number of fence lines before it
InCodeAt(i) == Cardinality({j \in 1..(i - 1) : IsFence(md_lines[j])}) % 2 = 1

\* the elements of out that line i emitted (0: the end of input)
EmittedBy(i) ==
    LET idx == {k \in DOMAIN md_from : md_from[k] = i}
    IN  IF idx = {} THEN <<>>
        ELSE SubSeq(md.out, CHOOSE k \in idx : \A j \in idx : k <= j,
                            CHOOSE k \in idx : \A j \in idx : k >= j)

TagLine == <<"<", "t", "a", "g", ">", "&">>
TagLineEscaped ==
    <<"&", "l", "t", ";", "t", "a", "g", "&", "g", "t", ";", "&", "a", "m", "p", ";">>

BulletAt(i) ==
    /\ ~InCodeAt(i)
    /\ ~IsFence(md_lines[i])
    /\ ~IsHeading(md_lines[i])
    /\ m_li(md_lines[i]).ok

\* the list close a line that is no bullet emits first when it ends a run
ClosesRun(i) == IF i > 1 /\ BulletAt(i - 1) THEN <<Out("/ul", <<>>)>> ELSE <<>>

OutKinds(out) == [k \in DOMAIN out |-> out[k].kind]

\* C13: outside code blocks the output follows the order of the lines, the
\* first bullet of a run opens the list and later bullets of the run do not,
\* and a heading, blank line, other line (or opening fence) that follows a
\* bullet closes the list before its own output; the worked example gives
\* h1, break, paragraph, (break,) list open, two items, list close.
C13_OneListPerBulletRun ==
    /\ \A k \in DOMAIN md_from : k > 1 /\ md_from[k] # 0 => md_from[k - 1] <= md_from[k]
    /\ \A i \in MdProcessed : ~InCodeAt(i) =>
          /\ BulletAt(i) =>
                EmittedBy(i) = (IF i > 1 /\ BulletAt(i - 1) THEN <<>> ELSE <<Out("ul", <<>>)>>)
                                 \o <<Out("li", esc(m_li(md_lines[i]).text))>>
          /\ (~BulletAt(i) /\ ~IsFence(md_lines[i])) =>
                /\ EmittedBy(i) = ClosesRun(i) \o <<plain_element(md_lines[i])>>
                /\ plain_element(md_lines[i]).kind \in {"h1", "h2", "h3", "sp", "p"}
          /\ IsFence(md_lines[i]) => EmittedBy(i) = ClosesRun(i) \o <<Out("pre", <<>>)>>
    /\ (pc = "md_done" /\ md_lines = MdExample) =>
          /\ OutKinds(md.out) = <<"h1", "sp", "p", "sp", "ul", "li", "li", "/ul">>
          /\ md.out[1].text = <<"T">> /\ md.out[6].text = <<"a">> /\ md.out[7].text = <<"b">>

\* the worked example has been converted
C13_Witness ==
    /\ pc = "md_done"
    /\ md_lines = MdExample
    /\ Len(md.out) = 8

\* elements of kind among the first k elements of out
CountOf(out, kind, k) == Cardinality({j \in 1..k : out[j].kind = kind})

\* opens and closes alternate, starting with an open, and end closed
Balanced(out, open, close) ==
    /\ \A k \in DOMAIN out : CountOf(out, open, k) - CountOf(out, close, k) \in {0, 1}
    /\ CountOf(out, open, Len(out)) = CountOf(out, close, Len(out))

\* C14: md_to_html comes to its end for every input, and then every list
\* open tag has its close tag and every code-block opening its closing tag,
\* also when the input ends inside a list or inside a fence.
C14_BalancedOutput ==
    /\ <>(pc = "md_done")
    /\ [](pc = "md_done" => /\ Balanced(md.out, "ul", "/ul")
                            /\ Balanced(md.out, "pre", "/pre"))

\* the input ended inside a fence that followed a list
C14_Witness ==
    /\ pc = "md_done"
    /\ InCodeAt(Len(md_lines) + 1)
    /\ BulletAt(1)
    /\ md.out[Len(md.out)] = Out("/pre", <<>>)

\* ------------------------------------------------------------------------
\* The tree controller of the rules page (app.js)
\* ------------------------------------------------------------------------
\* JavaScript values: ty is the type, s the characters of a string or the
\* digits of a number, a the elements of an array or the values of the keys
\* open and selectedId of an object
Undef == [ty |-> "undefined", s |-> <<>>, a |-> <<>>]
JsNull == [ty |-> "null", s |-> <<>>, a |-> <<>>]
JsStr(chars) == [ty |-> "string", s |-> chars, a |-> <<>>]
JsNum(digits) == [ty |-> "number", s |-> digits, a |-> <<>>]
JsArr(elems) == [ty |-> "array", s |-> <<>>, a |-> elems]
JsObj(open, selectedId) == [ty |-> "object", s |-> <<>>, a |-> <<open, selectedId>>]

\* the truthiness the || operator tests
Truthy(x) ==
    CASE x.ty \in {"undefined", "null"} -> FALSE
      [] x.ty = "string" -> x.s # <<>>
      [] x.ty = "number" -> x.s # <<"0">>
      [] x.ty = "boolean" -> x.s # <<"0">>
      [] OTHER -> TRUE

\* a || b
JsOr(a, b) == IF Truthy(a) THEN a ELSE b

\* obj[key] of a parsed value: only objects carry the two keys
JsGet(obj, k) == IF obj.ty = "object" THEN obj.a[k] ELSE Undef

\* the order-preserving content of new Set(elems)
RECURSIVE SetOrder(_)
SetOrder(elems) ==
    IF elems = <<>> THEN <<>>
    ELSE LET front == SetOrder(SubSeq(elems, 1, Len(elems) - 1))
         IN  IF \E i \in 1..Len(front) : front[i] = elems[Len(elems)]
             THEN front
             ELSE Append(front, elems[Len(elems)])

\* new Set(x): an array gives its elements, a string its characters, any
\* other value is not iterable and throws
Iterable(x) == x.ty \in {"array", "string"}
NewSet(x) ==
    IF x.ty = "array" THEN SetOrder(x.a)
    ELSE SetOrder([i \in 1..Len(x.s) |-> JsStr(<<x.s[i]>>)])

\* Set.prototype.has
SetHas(set, x) == \E i \in 1..Len(set) : set[i] = x

\* Set.prototype.delete
SetDelete(set, x) == SelectSeq(set, LAMBDA e : e # x)

\* Set.prototype.add
SetAdd(set, x) == IF SetHas(set, x) THEN set ELSE Append(set, x)

\* items of localStorage: none, a text, or the text JSON.stringify gives for
\* a value
NoItem == [ty |-> "null", s |-> <<>>, a |-> <<>>]
TextItem(chars) == [ty |-> "text", s |-> chars, a |-> <<>>]
JsonItem(value) == [ty |-> "json", s |-> <<>>, a |-> <<value>>]

\* JSON.stringify
JSON_stringify(value) == JsonItem(value)

\* JSON.parse: the texts drawn here that are not serialisations are not JSON
JSON_parse(item) ==
    IF item.ty = "json" THEN [throws |-> FALSE, value |-> item.a[1]]
    ELSE [throws |-> TRUE, value |-> Undef]

\* !s of a getItem result
NoText(item) == item.ty = "null" \/ (item.ty = "text" /\ item.s = <<>>)

\* String.prototype.includes
Includes(s, sub) ==
    \E i \in 0..(Len(s) - Len(sub)) : SubSeq(s, i + 1, i + Len(sub)) = sub

NodePrefix == <<"_", "n", "o", "d", "e", "_">>

nodeIdFromPath(n) == IF n.path # <<>> THEN n.path ELSE NodePrefix \o n.label

hasChildren(n) == Len(n.children) > 0

isBodyNode(n) == n.has_body

BodyHtmlSuffix == <<"/", "b", "o", "d", "y", ".", "h", "t", "m", "l">>

bodyHtmlRel(n) ==
    IF n.path = <<>> THEN <<>>
    ELSE RStrip(Slashes(n.path), {"/"}) \o BodyHtmlSuffix

\* joinUrl(buildBaseUrl, path) with buildBaseUrl "../"
BuildBaseUrl == <<".", ".", "/">>
joinUrl(base, path) ==
    (IF base # <<>> /\ base[Len(base)] # "/" THEN Append(base, "/") ELSE base)
    \o (IF path # <<>> /\ path[1] = "/" THEN SubSeq(path, 2, Len(path)) ELSE path)

RECURSIVE visibleByFilter(_, _)
visibleByFilter(n, filterLower) ==
    \/ filterLower = <<>>
    \/ Includes(Lower(n.label), filterLower)
    \/ \E i \in 1..Len(n.children) : visibleByFilter(n.children[i], filterLower)

\* auto-opening decided by the node's own label
shouldAutoOpen_own_label(n, filterLower) ==
    /\ filterLower # <<>>
    /\ hasChildren(n)
    /\ Includes(Lower(n.label), filterLower)

shouldAutoOpen(n, filterLower) ==
    /\ filterLower # <<>>
    /\ hasChildren(n)
    /\ \E i \in 1..Len(n.children) : visibleByFilter(n.children[i], filterLower)

\* String(state.filter || "").trim().toLowerCase()
FilterLower(st) == Lower(Strip(st.filter))

\* the crumbs findNodeAndBreadcrumbs returns for targetId, <<>> for null
RECURSIVE findNodeAndBreadcrumbs(_, _, _, _)
findNodeAndBreadcrumbs(list, i, targetId, crumbs) ==
    IF i > Len(list) THEN <<>>
    ELSE IF nodeIdFromPath(list[i]) = targetId THEN Append(crumbs, list[i].label)
    ELSE IF hasChildren(list[i])
            /\ findNodeAndBreadcrumbs(list[i].children, 1, targetId,
                                      Append(crumbs, list[i].label)) # <<>>
    THEN findNodeAndBreadcrumbs(list[i].children, 1, targetId,
                                Append(crumbs, list[i].label))
    ELSE findNodeAndBreadcrumbs(list, i + 1, targetId, crumbs)

\* every node of a list, children included
RECURSIVE AllNodes(_)
AllNodes(list) ==
    UNION {{list[i]} \cup AllNodes(list[i].children) : i \in 1..Len(list)}

\* one rendered row: the node, whether it carries is-selected, and the twisty
Row(n, st, filterLower) ==
    [nid |-> nodeIdFromPath(n),
     selected |-> st.selectedId = JsStr(nodeIdFromPath(n)),
     expandable |-> hasChildren(n),
     opened |-> SetHas(st.openSet, JsStr(nodeIdFromPath(n)))
                \/ shouldAutoOpen(n, filterLower)]

\* renderNode for the nodes list[i..], in document order
RECURSIVE renderNodes(_, _, _, _)
renderNodes(list, i, st, filterLower) ==
    IF i > Len(list) THEN <<>>
    ELSE IF ~visibleByFilter(list[i], filterLower)
    THEN renderNodes(list, i + 1, st, filterLower)
    ELSE <<Row(list[i], st, filterLower)>>
         \o (IF Row(list[i], st, filterLower).expandable
                /\ Row(list[i], st, filterLower).opened
             THEN renderNodes(list[i].children, 1, st, filterLower)
             ELSE <<>>)
         \o renderNodes(list, i + 1, st, filterLower)

\* crumbs.filter(x => x && x.trim() !== "").join(" / ")
RECURSIVE JoinCrumbs(_)
JoinCrumbs(crumbs) ==
    IF crumbs = <<>> THEN <<>>
    ELSE IF Strip(crumbs[Len(crumbs)]) = <<>>
    THEN JoinCrumbs(SubSeq(crumbs, 1, Len(crumbs) - 1))
    ELSE IF JoinCrumbs(SubSeq(crumbs, 1, Len(crumbs) - 1)) = <<>>
    THEN crumbs[Len(crumbs)]
    ELSE JoinCrumbs(SubSeq(crumbs, 1, Len(crumbs) - 1)) \o <<" ", "/", " ">>
         \o crumbs[Len(crumbs)]

ReadyText == <<"r", "e", "a", "d", "y">>

\* what the content frame shows: a generated placeholder document (srcdoc)
\* or a document loaded by URL (src)
Placeholder(title) == [kind |-> "srcdoc", doc |-> title]
Document(url) == [kind |-> "src", doc |-> url]
PhReady == <<"R", "e", "a", "d", "y">>
PhNoDocument == <<"N", "o", " ", "d", "o", "c">>

\* numbers of the splitter: NaN or an integer
NaN == [nan |-> TRUE, n |-> 0]
Num(k) == [nan |-> FALSE, n |-> k]

DigitVal(c) ==
    CASE c = "0" -> 0 [] c = "1" -> 1 [] c = "2" -> 2 [] c = "3" -> 3
      [] c = "4" -> 4 [] c = "5" -> 5 [] c = "6" -> 6 [] c = "7" -> 7
      [] c = "8" -> 8 [] c = "9" -> 9
Digits == {"0", "1", "2", "3", "4", "5", "6", "7", "8", "9"}

RECURSIVE DigitPrefix(_)
DigitPrefix(s) ==
    IF s = <<>> \/ s[1] \notin Digits THEN <<>>
    ELSE <<s[1]>> \o DigitPrefix(Tail(s))

RECURSIVE DigitsValue(_)
DigitsValue(ds) ==
    IF ds = <<>> THEN 0
    ELSE 10 * DigitsValue(SubSeq(ds, 1, Len(ds) - 1)) + DigitVal(ds[Len(ds)])

\* parseInt(text, 10) after the leading white space is skipped
parseIntBody(s) ==
    IF s # <<>> /\ s[1] = "-"
    THEN (IF DigitPrefix(Tail(s)) = <<>> THEN NaN
          ELSE Num(0 - DigitsValue(DigitPrefix(Tail(s)))))
    ELSE IF s # <<>> /\ s[1] = "+"
    THEN (IF DigitPrefix(Tail(s)) = <<>> THEN NaN
          ELSE Num(DigitsValue(DigitPrefix(Tail(s)))))
    ELSE IF DigitPrefix(s) = <<>> THEN NaN
    ELSE Num(DigitsValue(DigitPrefix(s)))

parseInt(text) == parseIntBody(LStrip(text, WS))

\* the :root values of --leftw, --leftw-min and --leftw-max
LeftwDefault == 360
LeftwMin == 240
LeftwMax == 720

clamp_upper_only(v, min, max) ==
    IF v.nan THEN min
    ELSE IF v.n > max THEN max
    ELSE v.n

clamp(v, min, max) ==
    IF v.nan THEN min
    ELSE IF v.n > max THEN max
    ELSE IF v.n < min THEN min
    ELSE v.n

\* the width --leftw holds after initLeftWidthFromStorage
initLeftWidthFromStorage(width, saved) ==
    IF NoText(saved) THEN width
    ELSE clamp(parseInt(saved.s), LeftwMin, LeftwMax)

\* the controller's world: state, localStorage and the page
StateDefault == [selectedId |-> JsStr(<<>>), openSet |-> <<>>, filter |-> <<>>]

saveTreeState(w) ==
    [w EXCEPT !.ls.tree =
        JSON_stringify(JsObj(JsArr(w.state.openSet),
                             JsOr(w.state.selectedId, JsStr(<<>>))))]

\* the two assignments of loadTreeState for the parsed value obj
loadParsed(w, obj) ==
    IF obj.ty = "null" THEN w
    ELSE IF ~Iterable(JsOr(JsGet(obj, 1), JsArr(<<>>))) THEN w
    ELSE [w EXCEPT !.state.openSet = NewSet(JsOr(JsGet(obj, 1), JsArr(<<>>))),
                   !.state.selectedId = JsOr(JsGet(obj, 2), JsStr(<<>>))]

loadTreeState(w) ==
    IF NoText(w.ls.tree) THEN w
    ELSE IF JSON_parse(w.ls.tree).throws THEN w
    ELSE loadParsed(w, JSON_parse(w.ls.tree).value)

\* a render that looks every open id up in the payload and throws, after
\* the container was emptied, on one that has no node
render_strict(w) ==
    IF \E i \in 1..Len(w.state.openSet) :
          \A n \in AllNodes(TREE) : JsStr(nodeIdFromPath(n)) # w.state.openSet[i]
    THEN [w EXCEPT !.page.rows = <<>>]
    ELSE [w EXCEPT !.page.rows = renderNodes(TREE, 1, w.state, FilterLower(w.state))]

render(w) ==
    [w EXCEPT !.page.rows = renderNodes(TREE, 1, w.state, FilterLower(w.state))]

setBreadcrumb(w, text) == [w EXCEPT !.page.breadcrumb = text]

setViewerPlaceholder(w, title) == [w EXCEPT !.page.viewer = Placeholder(title)]

\* toggling without the snapshot
toggleOpenOnly_unsaved(w, n) ==
    IF ~hasChildren(n) THEN w
    ELSE IF SetHas(w.state.openSet, JsStr(nodeIdFromPath(n)))
    THEN render([w EXCEPT !.state.openSet = SetDelete(@, JsStr(nodeIdFromPath(n)))])
    ELSE render([w EXCEPT !.state.openSet = SetAdd(@, JsStr(nodeIdFromPath(n)))])

toggleOpenOnly(w, n) ==
    IF ~hasChildren(n) THEN w
    ELSE IF SetHas(w.state.openSet, JsStr(nodeIdFromPath(n)))
    THEN render(saveTreeState(
            [w EXCEPT !.state.openSet = SetDelete(@, JsStr(nodeIdFromPath(n)))]))
    ELSE render(saveTreeState(
            [w EXCEPT !.state.openSet = SetAdd(@, JsStr(nodeIdFromPath(n)))]))

\* the breadcrumb text openDocument sets
Crumbs(n) ==
    IF findNodeAndBreadcrumbs(TREE, 1, nodeIdFromPath(n), <<>>) # <<>>
    THEN findNodeAndBreadcrumbs(TREE, 1, nodeIdFromPath(n), <<>>)
    ELSE <<n.label>>

\* the viewer part of openDocument
showDocument(w, n) ==
    IF bodyHtmlRel(n) # <<>>
    THEN [w EXCEPT !.page.viewer = Document(joinUrl(BuildBaseUrl, bodyHtmlRel(n)))]
    ELSE setViewerPlaceholder(w, PhNoDocument)

openDocument(w, n) ==
    render(showDocument(
        setBreadcrumb(
            saveTreeState([w EXCEPT !.state.selectedId = JsStr(nodeIdFromPath(n))]),
            IF JoinCrumbs(Crumbs(n)) # <<>> THEN JoinCrumbs(Crumbs(n)) ELSE ReadyText),
        n))

\* the row handler testing for children before the body document
row_click_children_first(w, n) ==
    IF hasChildren(n) THEN toggleOpenOnly(w, n)
    ELSE IF isBodyNode(n) THEN openDocument(w, n)
    ELSE render(saveTreeState(
            [setViewerPlaceholder(setBreadcrumb(w, n.label), PhNoDocument)
                EXCEPT !.state.selectedId = JsStr(nodeIdFromPath(n))]))

\* the click handler of the row
row_click(w, n) ==
    IF ~isBodyNode(n)
    THEN (IF hasChildren(n) THEN toggleOpenOnly(w, n)
          ELSE render(saveTreeState(
                  [setViewerPlaceholder(setBreadcrumb(w, n.label), PhNoDocument)
                      EXCEPT !.state.selectedId = JsStr(nodeIdFromPath(n))])))
    ELSE openDocument(w, n)

\* the twisty handler without stopPropagation: the row handler runs after it
twist_click_bubbles(w, n) ==
    row_click(IF hasChildren(n) THEN toggleOpenOnly(w, n)
              ELSE IF isBodyNode(n) THEN openDocument(w, n)
              ELSE w, n)

\* the click handler of the twisty
twist_click(w, n) ==
    IF hasChildren(n) THEN toggleOpenOnly(w, n)
    ELSE IF isBodyNode(n) THEN openDocument(w, n)
    ELSE w

\* ------------------------------------------------------------------------
\* Payloads, stored values and the handlers as actions
\* ------------------------------------------------------------------------
Node(label, path, has_body, children) ==
    [label |-> label, path |-> path, has_body |-> has_body, children |-> children]

\* a payload with every combination of children and body document:
\*   x (children)  >  N (children, body)  >  a (body)
\*                 >  b (neither)
\*   An (body)
NodeD == Node(<<"a">>, <<"1", "/", "1", "/", "1">>, TRUE, <<>>)
NodeB == Node(<<"N">>, <<"1", "/", "1">>, TRUE, <<NodeD>>)
NodeC == Node(<<"b">>, <<"1", "/", "2">>, FALSE, <<>>)
NodeA == Node(<<"x">>, <<"1">>, FALSE, <<NodeB, NodeC>>)
NodeE == Node(<<"A", "n">>, <<"2">>, TRUE, <<>>)
Tree1 == <<NodeA, NodeE>>
\* a flat payload
Tree2 == <<NodeE, Node(<<"b">>, <<"3">>, FALSE, <<>>)>>
UiTrees == {Tree1, Tree2}

\* an id no node of a payload has
GoneId == <<"9">>

\* values found under the tree-state key when the page loads
TreeItems ==
    {NoItem,
     TextItem(<<>>),
     TextItem(<<"{">>),
     JsonItem(JsNull),
     JsonItem(JsNum(<<"5">>)),
     JsonItem(JsObj(Undef, Undef)),
     JsonItem(JsObj(JsArr(<<JsStr(NodeA.path)>>), JsStr(NodeD.path))),
     JsonItem(JsObj(JsArr(<<JsStr(GoneId), JsStr(NodeA.path)>>), JsStr(GoneId))),
     JsonItem(JsObj(JsNum(<<"5">>), JsStr(NodeE.path))),
     JsonItem(JsObj(JsStr(<<"1", "9">>), JsNum(<<"5">>))),
     JsonItem(JsObj(JsArr(<<JsStr(NodeA.path), JsStr(NodeA.path)>>), JsStr(<<>>)))}

\* values found under the width key when the page loads
WidthItems ==
    {NoItem,
     TextItem(<<>>),
     TextItem(<<"3", "0", "0">>),
     TextItem(<<"a", "b", "c">>),
     TextItem(<<"1", "0", "0">>),
     TextItem(<<"9", "9", "9", "9">>)}

\* texts typed into the filter box
FilterTexts == {<<>>, <<"n">>, <<" ", "A">>, <<" ">>}

PageBlank ==
    [breadcrumb |-> <<>>, viewer |-> Placeholder(<<>>), rows |-> <<>>,
     q |-> <<>>, timer |-> 0]

NoEvent == [type |-> "none", nid |-> <<>>]
Event(type, nid) == [type |-> type, nid |-> nid]

\* the controller's world before and after a handler
World == [state |-> state, ls |-> localStorage, page |-> page]
SetWorld(w) ==
    /\ state' = w.state
    /\ localStorage' = w.ls
    /\ page' = w.page

\* clearTimeout(filterTimer): the timers have one delay and fire in the
\* order they were set, so the last one set is pending when any is
clearTimeout(pending) == IF pending > 0 THEN pending - 1 ELSE 0

input_handler_no_cancel(pg) == [pg EXCEPT !.timer = @ + 1]

\* the input listener of the filter box; timer counts the pending timers
input_handler(pg) == [pg EXCEPT !.timer = clearTimeout(@) + 1]

\* the callback of the filter timer
filter_timeout(w) == render([w EXCEPT !.state.filter = w.page.q])

\* an input event that found a timer pending
Restarted == <<"restart">>

\* the rows on the page carry the handlers
Rendered(n) == \E i \in 1..Len(page.rows) : page.rows[i].nid = nodeIdFromPath(n)

\* the width key is varied on the first payload with no stored tree state
InitUi ==
    /\ pc = "ui_start"
    /\ TREE \in UiTrees
    /\ state = StateDefault
    /\ localStorage \in [tree : TreeItems, leftw : WidthItems]
    /\ localStorage.leftw # NoItem => (TREE = Tree1 /\ localStorage.tree = NoItem)
    /\ page = PageBlank
    /\ leftw = LeftwDefault
    /\ dragging = FALSE
    /\ ev = NoEvent
    /\ PipeIdle
    /\ SiteIdle
    /\ SanIdle
    /\ CfgIdle
    /\ MdIdle
    /\ SplitIdle
    /\ FrameIdle

\* the script runs on a page: initLeftWidthFromStorage, then loadTreeState,
\* setBreadcrumb, setViewerPlaceholder and render
UiLoad ==
    /\ pc \in {"ui_start", "ui_closed"}
    /\ pc' = "ui_ready"
    /\ leftw' = initLeftWidthFromStorage(LeftwDefault, localStorage.leftw)
    /\ SetWorld(render(setViewerPlaceholder(setBreadcrumb(
            loadTreeState([state |-> StateDefault, ls |-> localStorage,
                           page |-> PageBlank]),
            ReadyText), PhReady)))
    /\ ev' = Event("load", <<>>)
    /\ UNCHANGED <<TREE, dragging, pipe_vars, site_vars, san_vars, cfg_vars, md_vars, split_vars, frame_vars>>

\* a click on the twisty of a rendered row
UiTwist ==
    /\ pc = "ui_ready"
    /\ \E n \in AllNodes(TREE) :
        /\ Rendered(n)
        /\ SetWorld(twist_click(World, n))
        /\ ev' = Event("twist", nodeIdFromPath(n))
    /\ UNCHANGED <<pc, TREE, leftw, dragging, pipe_vars, site_vars, san_vars, cfg_vars, md_vars, split_vars, frame_vars>>

\* a click on a rendered row
UiRow ==
    /\ pc = "ui_ready"
    /\ \E n \in AllNodes(TREE) :
        /\ Rendered(n)
        /\ SetWorld(row_click(World, n))
        /\ ev' = Event("row", nodeIdFromPath(n))
    /\ UNCHANGED <<pc, TREE, leftw, dragging, pipe_vars, site_vars, san_vars, cfg_vars, md_vars, split_vars, frame_vars>>

\* the input handler of the filter box: the text changes and the timer is
\* set again
UiInput ==
    /\ pc = "ui_ready"
    /\ \E text \in FilterTexts :
        /\ text # page.q
        /\ page' = input_handler([page EXCEPT !.q = text])
    /\ ev' = Event("input", IF page.timer > 0 THEN Restarted ELSE <<>>)
    /\ UNCHANGED <<pc, TREE, state, localStorage, leftw, dragging, pipe_vars, site_vars, san_vars, cfg_vars, md_vars, split_vars, frame_vars>>

\* the timer of the filter box fires
UiFilterTimer ==
    /\ pc = "ui_ready"
    /\ page.timer > 0
    /\ SetWorld(filter_timeout([World EXCEPT !.page.timer = @ - 1]))
    /\ ev' = Event("filter", <<>>)
    /\ UNCHANGED <<pc, TREE, leftw, dragging, pipe_vars, site_vars, san_vars, cfg_vars, md_vars, split_vars, frame_vars>>

\* beforeunload: the page is left
UiUnload ==
    /\ pc = "ui_ready"
    /\ pc' = "ui_closed"
    /\ SetWorld(saveTreeState([World EXCEPT !.page.timer = 0]))
    /\ ev' = Event("unload", <<>>)
    /\ UNCHANGED <<TREE, leftw, dragging, pipe_vars, site_vars, san_vars, cfg_vars, md_vars, split_vars, frame_vars>>

NextUi == UiLoad \/ UiTwist \/ UiRow \/ UiInput \/ UiFilterTimer \/ UiUnload

SpecUi == InitUi /\ [][NextUi]_vars

\* ------------------------------------------------------------------------
\* Properties of the tree controller
\* ------------------------------------------------------------------------
\* the node a handler ran for
NodeOf(nid) == CHOOSE n \in AllNodes(TREE) : nodeIdFromPath(n) = nid

Elems(seq) == {seq[i] : i \in 1..Len(seq)}

\* between this state and the next, exactly the membership of id in openSet
\* changed
ToggledOnly(id) ==
    /\ SetHas(state'.openSet, id) # SetHas(state.openSet, id)
    /\ \A x \in (Elems(state.openSet) \cup Elems(state'.openSet)) \ {id} :
          SetHas(state'.openSet, x) = SetHas(state.openSet, x)

\* the URL of a node's converted body document
DocUrl(n) == BuildBaseUrl \o n.path \o BodyHtmlSuffix

\* the step is the handler of the given type, run for a node
StepOf(type) == ev'.type = type

\* C15: a click on the twisty of a node with children leaves selectedId and
\* the content frame as they are and toggles exactly that node's membership
\* in openSet; on a node without children that has a body document the
\* click loads the document and selects the node.
C15_TwistTogglesOnly ==
    [][StepOf("twist") =>
        /\ hasChildren(NodeOf(ev'.nid)) =>
              /\ state'.selectedId = state.selectedId
              /\ page'.viewer = page.viewer
              /\ ToggledOnly(JsStr(ev'.nid))
        /\ (~hasChildren(NodeOf(ev'.nid)) /\ NodeOf(ev'.nid).has_body) =>
              /\ page'.viewer = Document(DocUrl(NodeOf(ev'.nid)))
              /\ state'.selectedId = JsStr(ev'.nid)
              /\ state'.openSet = state.openSet]_vars

\* a twisty click on a node with children and a body document closed the
\* node while another node stayed selected
C15_Witness ==
    /\ ev = Event("twist", NodeB.path)
    /\ state.selectedId = JsStr(NodeE.path)
    /\ ~SetHas(state.openSet, JsStr(NodeB.path))
    /\ SetHas(state.openSet, JsStr(NodeA.path))
    /\ page.viewer = Document(DocUrl(NodeE))

\* C16: a click on a row has one of three outcomes, by the node: with a body
\* document the document is loaded and the node selected, openSet unchanged;
\* else with children the node's membership in openSet is toggled, selectedId
\* and the content frame unchanged; else the placeholder is shown and the
\* node selected, openSet unchanged.
C16_RowClickOutcome ==
    [][StepOf("row") =>
        /\ NodeOf(ev'.nid).has_body =>
              /\ page'.viewer = Document(DocUrl(NodeOf(ev'.nid)))
              /\ state'.selectedId = JsStr(ev'.nid)
              /\ state'.openSet = state.openSet
        /\ (~NodeOf(ev'.nid).has_body /\ hasChildren(NodeOf(ev'.nid))) =>
              /\ ToggledOnly(JsStr(ev'.nid))
              /\ state'.selectedId = state.selectedId
              /\ page'.viewer = page.viewer
        /\ (~NodeOf(ev'.nid).has_body /\ ~hasChildren(NodeOf(ev'.nid))) =>
              /\ page'.viewer = Placeholder(PhNoDocument)
              /\ state'.selectedId = JsStr(ev'.nid)
              /\ state'.openSet = state.openSet]_vars

\* a row click on a node with both a body document and children loaded the
\* document and left the node closed
C16_Witness ==
    /\ ev = Event("row", NodeB.path)
    /\ state.selectedId = JsStr(NodeB.path)
    /\ page.viewer = Document(DocUrl(NodeB))
    /\ state.openSet = <<JsStr(NodeA.path)>>

\* the label of n contains text, case-insensitively
LabelHas(n, text) == Includes(Lower(n.label), Lower(text))

\* the label of n or of one of its descendants contains text
RECURSIVE SubtreeHas(_, _)
SubtreeHas(n, text) ==
    \/ LabelHas(n, text)
    \/ \E i \in 1..Len(n.children) : SubtreeHas(n.children[i], text)

\* the rendered row of a node
RowOf(n) ==
    page.rows[CHOOSE i \in 1..Len(page.rows) : page.rows[i].nid = nodeIdFromPath(n)]

\* the rendered rows are those of the nodes whose subtree has text, and a
\* rendered node whose own label lacks it is expanded
ShowsMatchesOf(text) ==
    \A n \in AllNodes(TREE) :
        /\ Rendered(n) <=> SubtreeHas(n, text)
        /\ (Rendered(n) /\ ~LabelHas(n, text)) => RowOf(n).opened

\* typing into the filter box and applying the filter leave openSet,
\* selectedId and the stored values alone
FilterOnlyDerived ==
    [][(StepOf("input") \/ StepOf("filter")) =>
        /\ state'.openSet = state.openSet
        /\ state'.selectedId = state.selectedId
        /\ localStorage' = localStorage]_vars

\* C17 as stated: with a non-empty filter a node is rendered iff its label or
\* a descendant's contains the filter text case-insensitively, a rendered
\* node that does not match itself is expanded, and filtering changes neither
\* openSet nor durable storage.
C17_FilterTextShown ==
    /\ [](state.filter # <<>> => ShowsMatchesOf(state.filter))
    /\ FilterOnlyDerived

\* C17 (amended): the filter text is taken with its surrounding white space
\* trimmed: with a filter that is non-empty after trimming, a node is
\* rendered iff its label or a descendant's contains the trimmed text
\* case-insensitively, a rendered node that does not match itself is
\* expanded, and filtering changes neither openSet nor durable storage.
C17_TrimmedFilterShown ==
    /\ [](Strip(state.filter) # <<>> => ShowsMatchesOf(Strip(state.filter)))
    /\ FilterOnlyDerived

\* the filter " A" is applied with nothing opened by hand: x and N are shown
\* expanded for their descendant a, b is hidden, and nothing was stored
C17_Witness ==
    /\ ev.type = "filter"
    /\ TREE = Tree1
    /\ state.filter = <<" ", "A">>
    /\ state.openSet = <<>>
    /\ localStorage.tree = NoItem
    /\ Rendered(NodeD)
    /\ ~Rendered(NodeC)
    /\ RowOf(NodeA).opened
    /\ RowOf(NodeB).opened

\* the text under the tree-state key is the serialisation of an object with
\* the two keys open and selectedId, open listing the members of st.openSet
\* and selectedId being st.selectedId
StoredIs(ls, st) ==
    /\ ls.tree.ty = "json"
    /\ ls.tree.a[1].ty = "object"
    /\ Len(ls.tree.a[1].a) = 2
    /\ ls.tree.a[1].a[1].ty = "array"
    /\ Elems(ls.tree.a[1].a[1].a) = Elems(st.openSet)
    /\ ls.tree.a[1].a[2] = st.selectedId

\* the step is a click handler that changed openSet or selectedId
MutatingClick ==
    /\ StepOf("twist") \/ StepOf("row")
    /\ state'.openSet # state.openSet \/ state'.selectedId # state.selectedId

ValidIds == {JsStr(nodeIdFromPath(n)) : n \in AllNodes(TREE)}

\* openSet or selectedId holds a value that is no node's id
HasDangling ==
    \/ \E x \in Elems(state.openSet) : x \notin ValidIds
    \/ state.selectedId # JsStr(<<>>) /\ state.selectedId \notin ValidIds

\* state with the values that are no node's id removed
ValidState ==
    [state EXCEPT !.openSet = SelectSeq(@, LAMBDA x : x \in ValidIds),
                  !.selectedId = IF @ \in ValidIds THEN @ ELSE JsStr(<<>>)]

\* C19: with an id in openSet or selectedId that no node of the payload has,
\* the page shows the rows the valid ids alone give (the top-level nodes
\* among them, none opened or selected by the dangling id), and a click on a
\* row still selects or toggles its node.
C19_DanglingIdsHarmless ==
    /\ [](pc = "ui_ready" /\ HasDangling =>
            /\ page.rows = renderNodes(TREE, 1, ValidState, FilterLower(state))
            /\ state.filter = <<>> => \A i \in 1..Len(TREE) : Rendered(TREE[i])
            /\ state.selectedId \notin ValidIds =>
                  \A i \in 1..Len(page.rows) : ~page.rows[i].selected)
    /\ [][StepOf("row") /\ HasDangling =>
            \/ state'.selectedId = JsStr(ev'.nid)
            \/ ToggledOnly(JsStr(ev'.nid))]_vars

\* the stored state named a node that is gone, as open and as selected; the
\* tree was shown, and a row click then selected a node of the payload
C19_Witness ==
    /\ TREE = Tree1
    /\ SetHas(state.openSet, JsStr(GoneId))
    /\ ev = Event("row", NodeB.path)
    /\ state.selectedId = JsStr(NodeB.path)
    /\ page.viewer = Document(DocUrl(NodeB))
    /\ Len(page.rows) = 4

\* a stored width is well formed when it is the digits of a number
WellFormedWidth(item) ==
    /\ item.ty = "text"
    /\ item.s # <<>>
    /\ \A i \in 1..Len(item.s) : item.s[i] \in Digits

\* a stored tree state is well formed when it is the serialisation of an
\* object whose open is an array of strings and whose selectedId is a string
WellFormedTree(item) ==
    /\ item.ty = "json"
    /\ item.a[1].ty = "object"
    /\ item.a[1].a[1].ty = "array"
    /\ \A i \in 1..Len(item.a[1].a[1].a) : item.a[1].a[1].a[i].ty = "string"
    /\ item.a[1].a[2].ty = "string"

\* a value is stored under the key and is not well formed
CorruptWidth == localStorage.leftw # NoItem /\ ~WellFormedWidth(localStorage.leftw)
CorruptTree == localStorage.tree # NoItem /\ ~WellFormedTree(localStorage.tree)

\* C20: when the page has loaded with a corrupt value under the tree-state
\* key, openSet and selectedId are the empty defaults; with a corrupt value
\* under the width key, the pane has its default width; and the top-level
\* nodes are rendered.
C20_CorruptStorageDiscarded ==
    ev.type = "load" =>
        /\ CorruptTree => (state.openSet = <<>> /\ state.selectedId = JsStr(<<>>))
        /\ CorruptWidth => leftw = LeftwDefault
        /\ \A i \in 1..Len(TREE) : Rendered(TREE[i])

\* what the content frame shows for a node: its body document, or the
\* no-document placeholder when it has none
ShownFor(n) ==
    IF n.has_body THEN Document(DocUrl(n)) ELSE Placeholder(PhNoDocument)

\* C21: whenever the page is loaded and selectedId is the id of a node of the
\* payload, the content frame shows that node's document or its no-document
\* placeholder, also right after a load that restored selectedId.
C21_SelectedIsDisplayed ==
    (pc = "ui_ready" /\ state.selectedId \in ValidIds) =>
        page.viewer = ShownFor(NodeOf(state.selectedId.s))

\* ------------------------------------------------------------------------
\* The height bridge: the reporter script of an embedded document and the
\* message listener of the outer page
\* ------------------------------------------------------------------------
\* most reports one document sends
MaxReports == 3
\* most messages posted to the outer page and not yet delivered
MaxInbox == 1
\* the count of deliveries of one message in a row stops at this number
MaxRepeats == 2

JsBool(b) == [ty |-> "boolean", s |-> IF b THEN <<"1">> ELSE <<"0">>, a |-> <<>>]

\* the data of a message with the keys type and height
JsMsg(type, height) == [ty |-> "object", s |-> <<>>, a |-> <<type, height>>]

HeightType == <<"r", "u", "l", "e", "n", "a", "v", "i", "_", "i", "f", "r", "a",
                "m", "e", "_", "h", "e", "i", "g", "h", "t">>
NaNText == <<"N", "a", "N">>
InfinityText == <<"I", "n", "f", "i", "n", "i", "t", "y">>

\* numbers as Number() gives them: finite with a value, NaN or Infinity
Finite(k) == [cls |-> "finite", n |-> k]
NotANumber == [cls |-> "nan", n |-> 0]
Infinite == [cls |-> "inf", n |-> 0]

\* the number a text of an optional sign and digits stands for
NumberText(s) ==
    IF s = <<>> THEN Finite(0)
    ELSE IF s = InfinityText THEN Infinite
    ELSE IF s[1] = "-" /\ Len(s) > 1 /\ DigitPrefix(Tail(s)) = Tail(s)
    THEN Finite(0 - DigitsValue(Tail(s)))
    ELSE IF DigitPrefix(s) = s THEN Finite(DigitsValue(s))
    ELSE NotANumber

\* Number(x)
Number(x) ==
    CASE x.ty = "number" -> NumberText(x.s)
      [] x.ty = "string" -> NumberText(Strip(x.s))
      [] x.ty = "boolean" -> NumberText(x.s)
      [] x.ty = "null" -> Finite(0)
      [] OTHER -> NotANumber

DigitChar(k) ==
    CASE k = 0 -> "0" [] k = 1 -> "1" [] k = 2 -> "2" [] k = 3 -> "3"
      [] k = 4 -> "4" [] k = 5 -> "5" [] k = 6 -> "6" [] k = 7 -> "7"
      [] k = 8 -> "8" [] k = 9 -> "9"

\* String(k) of a natural number
RECURSIVE NatText(_)
NatText(k) ==
    IF k < 10 THEN <<DigitChar(k)>>
    ELSE NatText(k \div 10) \o <<DigitChar(k % 10)>>

\* the padding the listener adds, and the height openDocument and
\* setViewerPlaceholder set
FramePadding == 24
FrameHeightDefault == 600

\* d.type and d.height of the data of a message
MsgType(d) == IF d.ty = "object" THEN d.a[1] ELSE Undef
MsgHeight(d) == IF d.ty = "object" THEN d.a[2] ELSE Undef

\* the message listener of the outer page: the frame height after a message
\* with data d, height being the height before
on_message_never_shrinks(height, d) ==
    IF ~Truthy(d) \/ MsgType(d) # JsStr(HeightType) THEN height
    ELSE IF Number(MsgHeight(d)).cls # "finite" \/ Number(MsgHeight(d)).n <= 0 THEN height
    ELSE (IF height > Number(MsgHeight(d)).n THEN height ELSE Number(MsgHeight(d)).n) + FramePadding

on_message(height, d) ==
    IF ~Truthy(d) \/ MsgType(d) # JsStr(HeightType) THEN height
    ELSE IF Number(MsgHeight(d)).cls # "finite" \/ Number(MsgHeight(d)).n <= 0
    THEN height
    ELSE Number(MsgHeight(d)).n + FramePadding

\* the sandbox attribute of the content frame
Sandbox == {"allow-same-origin", "allow-popups", "allow-forms"}

\* whether the scripts of a document run: a document in a sandboxed frame
\* runs scripts only with allow-scripts
ScriptsRun(where) == where = "top" \/ "allow-scripts" \in Sandbox

\* a document that has just been parsed, before its scripts ran
NewDoc(where, kind, height) ==
    [where |-> where, kind |-> kind, height |-> height, loaded |-> FALSE,
     last |-> 0 - 1, timers |-> 0, sent |-> 0]
NoDoc == NewDoc("none", "none", 0)

\* post() of the reporter script
post(d) ==
    IF d.height = d.last THEN d
    ELSE [d EXCEPT !.last = d.height, !.sent = @ + 1]

\* post(); setTimeout(post, 50); setTimeout(post, 250);
tick(d) == [post(d) EXCEPT !.timers = @ + 2]

\* the reporter script runs: body.html ends with tick(), the placeholder
\* document with post()
run_script(d) ==
    IF ~ScriptsRun(d.where) THEN d
    ELSE IF d.kind = "body" THEN tick(d)
    ELSE post(d)

\* the load event: both scripts listen with post() and two timers
on_load(d) ==
    IF ~ScriptsRun(d.where) THEN [d EXCEPT !.loaded = TRUE]
    ELSE tick([d EXCEPT !.loaded = TRUE])

\* a timer of the script fires
on_timer(d) == [post(d) EXCEPT !.timers = @ - 1]

\* a resize or a mutation observed in the document, its height then being h
on_resize(d, h) ==
    IF ~ScriptsRun(d.where) THEN [d EXCEPT !.height = h]
    ELSE post([d EXCEPT !.height = h])

\* the message a report of the document is
HeightReport(d) == JsMsg(JsStr(HeightType), JsNum(NatText(d.last)))

\* the messages posted to the outer page when the document goes from d to e:
\* parent is the outer page for the document in the frame
Posted(d, e) ==
    IF e.where = "frame" /\ e.sent > d.sent THEN <<HeightReport(e)>> ELSE <<>>

\* heights of embedded documents
Heights == {100, 300}

\* data of the messages other windows post to the outer page
Messages ==
    {Undef,
     JsStr(<<"x">>),
     JsMsg(JsStr(<<"x">>), JsNum(<<"1", "0", "0">>)),
     JsMsg(JsStr(HeightType), JsNum(<<"1", "0", "0">>)),
     JsMsg(JsStr(HeightType), JsNum(<<"3", "0", "0">>)),
     JsMsg(JsStr(HeightType), JsNum(<<"0">>)),
     JsMsg(JsStr(HeightType), JsNum(<<"-", "5">>)),
     JsMsg(JsStr(HeightType), JsNum(NaNText)),
     JsMsg(JsStr(HeightType), JsNum(InfinityText)),
     JsMsg(JsStr(HeightType), JsStr(<<"a", "b", "c">>)),
     JsMsg(JsStr(HeightType), Undef),
     JsMsg(JsStr(HeightType), JsStr(<<"1", "0", "0">>)),
     JsMsg(JsStr(HeightType), JsBool(TRUE))}

\* what the actions of the bridge leave alone
\* no message was delivered since the document was loaded into the frame
NoRepeats == [data |-> Undef, n |-> 0]

frame_rest ==
    <<pc, pipe_vars, site_vars, san_vars, cfg_vars, md_vars, split_vars,
      TREE, state, localStorage, page, leftw, dragging>>

\* either the rules page has shown its first placeholder in the content
\* frame, or a body.html was opened in a tab of its own
InitFrame ==
    /\ pc = "fr_ready"
    /\ \E h \in Heights :
        \/ /\ fdoc = run_script(NewDoc("frame", "placeholder", h))
           /\ vh = FrameHeightDefault
        \/ /\ fdoc = run_script(NewDoc("top", "body", h))
           /\ vh = 0
    /\ inbox = <<>>
    /\ repeats = NoRepeats
    /\ ev = Event("init", Undef)
    /\ TREE = <<>>
    /\ state = <<>>
    /\ localStorage = <<>>
    /\ page = <<>>
    /\ leftw = 0
    /\ dragging = FALSE
    /\ PipeIdle
    /\ SiteIdle
    /\ SanIdle
    /\ CfgIdle
    /\ MdIdle
    /\ SplitIdle

\* openDocument or setViewerPlaceholder loads a document into the frame
FrNavigate ==
    /\ fdoc.where = "frame"
    /\ \E kind \in {"body", "placeholder"}, h \in Heights :
        /\ fdoc' = run_script(NewDoc("frame", kind, h))
        /\ inbox' = inbox \o Posted(NewDoc("frame", kind, h), fdoc')
    /\ vh' = FrameHeightDefault
    /\ repeats' = NoRepeats
    /\ ev' = Event("navigate", Undef)
    /\ UNCHANGED frame_rest

\* a body.html is opened in the tab again
FrTabOpen ==
    /\ fdoc.where = "top"
    /\ \E h \in Heights : fdoc' = run_script(NewDoc("top", "body", h))
    /\ ev' = Event("open", Undef)
    /\ UNCHANGED <<vh, inbox, repeats, frame_rest>>

\* the load event of the document
FrLoad ==
    /\ ~fdoc.loaded
    /\ fdoc' = on_load(fdoc)
    /\ inbox' = inbox \o Posted(fdoc, fdoc')
    /\ ev' = Event("load", Undef)
    /\ UNCHANGED <<vh, repeats, frame_rest>>

\* a timer of the reporter script fires
FrTimer ==
    /\ fdoc.timers > 0
    /\ fdoc' = on_timer(fdoc)
    /\ inbox' = inbox \o Posted(fdoc, fdoc')
    /\ ev' = Event("timer", Undef)
    /\ UNCHANGED <<vh, repeats, frame_rest>>

\* the document is resized or mutated
FrResize ==
    /\ fdoc.sent < MaxReports
    /\ \E h \in Heights : fdoc' = on_resize(fdoc, h)
    /\ inbox' = inbox \o Posted(fdoc, fdoc')
    /\ ev' = Event("resize", Undef)
    /\ UNCHANGED <<vh, repeats, frame_rest>>

\* another window posts a message to the outer page
FrEnvPost ==
    /\ fdoc.where = "frame"
    /\ Len(inbox) < MaxInbox
    /\ \E m \in Messages : inbox' = Append(inbox, m)
    /\ ev' = Event("post", Undef)
    /\ UNCHANGED <<vh, fdoc, repeats, frame_rest>>

\* the message event of the outer page
FrDeliver ==
    /\ inbox # <<>>
    /\ vh' = on_message(vh, Head(inbox))
    /\ inbox' = Tail(inbox)
    /\ repeats' = IF repeats.n > 0 /\ repeats.data = Head(inbox)
                  THEN [repeats EXCEPT !.n = IF @ < MaxRepeats THEN @ + 1 ELSE @]
                  ELSE [data |-> Head(inbox), n |-> 1]
    /\ ev' = Event("message", Head(inbox))
    /\ UNCHANGED <<fdoc, frame_rest>>

NextFrame ==
    FrNavigate \/ FrTabOpen \/ FrLoad \/ FrTimer \/ FrResize \/ FrEnvPost \/ FrDeliver

SpecFrame == InitFrame /\ [][NextFrame]_vars

\* ------------------------------------------------------------------------
\* Properties of the height bridge
\* ------------------------------------------------------------------------
\* x is a number, finite and positive
PositiveNumber(x) ==
    /\ x.ty = "number"
    /\ x.s # <<>>
    /\ DigitPrefix(x.s) = x.s
    /\ DigitsValue(x.s) > 0

\* d is the data of a height report: the type is the height-report type and
\* the height a finite positive number
IsHeightReport(d) ==
    /\ d.ty = "object"
    /\ d.a[1] = JsStr(HeightType)
    /\ PositiveNumber(d.a[2])

\* C22: a message that is a height report (height-report type, height a
\* finite positive number) sets the frame height to the reported height plus
\* 24; every other message leaves the frame height unchanged.
C22_OnlyHeightReports ==
    [][StepOf("message") =>
        IF IsHeightReport(ev'.nid)
        THEN vh' = DigitsValue(ev'.nid.a[2].s) + 24
        ELSE vh' = vh]_vars

\* the reported height of a height report
ReportedHeight(d) == DigitsValue(d.a[2].s)

\* C23: a height report delivered again directly after the same report, with
\* no navigation in between, changes nothing in the outer page: the frame
\* height and every other state of the parent stay as the first delivery
\* left them.
C23_RepeatedReportIdempotent ==
    [][(StepOf("message") /\ repeats'.n >= 2 /\ IsHeightReport(ev'.nid)) =>
        (vh' = vh /\ vh = ReportedHeight(ev'.nid) + FramePadding /\ fdoc' = fdoc /\ UNCHANGED frame_rest)]_vars

\* the same height report was delivered twice in a row
C23_Witness ==
    /\ ev.type = "message"
    /\ IsHeightReport(ev.nid)
    /\ repeats.n >= 2
    /\ repeats.data = ev.nid
    /\ vh = ReportedHeight(ev.nid) + FramePadding

\* the report that carries the present height of the document
CurrentReport(d) == JsMsg(JsStr(HeightType), JsNum(NatText(d.height)))

\* C24: a stale frame height is corrected by the next resize or mutation
\* event of the document in the frame: after such an event the frame height
\* is the height of the document plus the padding, or the report that makes
\* it so is the last message on its way to the outer page.
C24_ResizeCorrectsHeight ==
    (fdoc.where = "frame" /\ ev.type = "resize") =>
        \/ vh = fdoc.height + FramePadding
        \/ (inbox # <<>> /\ inbox[Len(inbox)] = CurrentReport(fdoc))

\* C25: every document loaded into the content frame has posted a height
\* report when its load event has run, and the two delayed re-sends of the
\* load are the only timers it ever starts.
C25_LoadPostsReport ==
    (fdoc.where = "frame" /\ fdoc.loaded) =>
        (fdoc.sent >= 1 /\ fdoc.last = fdoc.height /\ fdoc.timers <= 2)

\* ------------------------------------------------------------------------
\* The splitter of the rules page (app.js, installSplitter)
\* ------------------------------------------------------------------------
\* the pairs of window listeners one page may collect
MaxListeners == 3

\* the pointers of the device
Pointers == {1, 2}
\* clientX of a pointer event
PointerXs == {0, 300, 500, 2000}
\* the left edge of .main when a pointer goes down
MainLefts == {0, 16}
\* the offset onMove takes off the pointer position
SplitterOffset == 14

\* the state the splitter's closures work on
SplitWorld ==
    [dragging |-> dragging, leftw |-> leftw, ls |-> localStorage,
     listeners |-> listeners]

\* the pair onMove, onUp one pointerdown creates
Closure(mainLeft) == [min |-> LeftwMin, max |-> LeftwMax, mainLeft |-> mainLeft]

RECURSIVE RemoveListener(_, _)
RemoveListener(ls, c) ==
    IF ls = <<>> THEN <<>>
    ELSE IF Head(ls) = c THEN Tail(ls)
    ELSE <<Head(ls)>> \o RemoveListener(Tail(ls), c)

\* getCssVarPx("--leftw") || 360
CurrentWidth(w) == IF w.leftw = 0 THEN LeftwDefault ELSE w.leftw

\* onDown without the early return
onDown(w, mainLeft) ==
    [w EXCEPT !.dragging = TRUE,
              !.listeners = Append(@, Closure(mainLeft))]

onMove(w, c, x) ==
    IF ~w.dragging THEN w
    ELSE [w EXCEPT !.leftw = clamp(Num(x - c.mainLeft - SplitterOffset), c.min, c.max)]

onUp(w, c) ==
    IF ~w.dragging THEN w
    ELSE [w EXCEPT !.dragging = FALSE,
                   !.ls.leftw = TextItem(NatText(CurrentWidth(w))),
                   !.listeners = RemoveListener(@, c)]

\* window dispatches a pointermove to the listeners registered when it began
RECURSIVE dispatch_move(_, _, _)
dispatch_move(w, cs, x) ==
    IF cs = <<>> THEN w
    ELSE dispatch_move(onMove(w, Head(cs), x), Tail(cs), x)

\* window dispatches a pointerup
RECURSIVE dispatch_up(_, _)
dispatch_up(w, cs) ==
    IF cs = <<>> THEN w
    ELSE dispatch_up(onUp(w, Head(cs)), Tail(cs))

SetSplitWorld(w) ==
    /\ dragging' = w.dragging
    /\ leftw' = w.leftw
    /\ localStorage' = w.ls
    /\ listeners' = w.listeners

split_rest ==
    <<pipe_vars, site_vars, san_vars, cfg_vars, md_vars, frame_vars,
      TREE, state, page>>

InitSplit ==
    /\ pc = "sp_start"
    /\ localStorage \in [tree : {NoItem}, leftw : WidthItems]
    /\ leftw = LeftwDefault
    /\ dragging = FALSE
    /\ listeners = <<>>
    /\ captured = {}
    /\ pointers = {}
    /\ ev = Event("init", 0)
    /\ TREE = <<>>
    /\ state = <<>>
    /\ page = <<>>
    /\ PipeIdle
    /\ SiteIdle
    /\ SanIdle
    /\ CfgIdle
    /\ MdIdle
    /\ FrameIdle

\* the page is loaded, or loaded again: initLeftWidthFromStorage and
\* installSplitter run on a fresh page
SpLoad ==
    /\ pc = "sp_start" \/ pointers = {}
    /\ pc' = "sp_ready"
    /\ leftw' = initLeftWidthFromStorage(LeftwDefault, localStorage.leftw)
    /\ dragging' = FALSE
    /\ listeners' = <<>>
    /\ captured' = {}
    /\ ev' = Event("load", 0)
    /\ UNCHANGED <<localStorage, pointers, split_rest>>

\* a pointer goes down on the splitter, which is hidden on a narrow window
SpDown ==
    /\ pc = "sp_ready"
    /\ Len(listeners) < MaxListeners
    /\ \E p \in Pointers \ pointers, hidden \in BOOLEAN, mainLeft \in MainLefts :
        /\ pointers' = pointers \cup {p}
        /\ IF hidden
           THEN UNCHANGED <<dragging, leftw, localStorage, listeners, captured>>
           ELSE /\ SetSplitWorld(onDown(SplitWorld, mainLeft))
                /\ captured' = captured \cup {p}
        /\ ev' = Event("pointerdown", p)
    /\ UNCHANGED <<pc, split_rest>>

\* a pointer goes down somewhere else on the page
SpDownElsewhere ==
    /\ pc = "sp_ready"
    /\ \E p \in Pointers \ pointers :
        /\ pointers' = pointers \cup {p}
        /\ ev' = Event("pointerdown_elsewhere", p)
    /\ UNCHANGED <<pc, dragging, leftw, localStorage, listeners, captured, split_rest>>

\* a pointer moves
SpMove ==
    /\ pc = "sp_ready"
    /\ \E x \in PointerXs :
        SetSplitWorld(dispatch_move(SplitWorld, listeners, x))
    /\ ev' = Event("pointermove", 0)
    /\ UNCHANGED <<pc, captured, pointers, split_rest>>

\* a pointer goes up: the browser releases its capture after the event
SpUp ==
    /\ pc = "sp_ready"
    /\ \E p \in pointers :
        /\ pointers' = pointers \ {p}
        /\ captured' = captured \ {p}
        /\ ev' = Event("pointerup", p)
    /\ SetSplitWorld(dispatch_up(SplitWorld, listeners))
    /\ UNCHANGED <<pc, split_rest>>

NextSplit == SpLoad \/ SpDown \/ SpDownElsewhere \/ SpMove \/ SpUp

SpecSplit == InitSplit /\ [][NextSplit]_vars

\* ------------------------------------------------------------------------
\* Properties of the splitter
\* ------------------------------------------------------------------------
WidthRange == LeftwMin..LeftwMax

\* a step in which a pointer release ends a drag
DragEnds == StepOf("pointerup") /\ dragging /\ ~dragging'

\* C26: every width the splitter applies lies in [240, 720]: the width
\* restored from storage on load, the width after every pointer move of a
\* drag, and the width written to storage when the drag ends.
C26_WidthInRange ==
    [][/\ (StepOf("load") /\ ~NoText(localStorage.leftw)) => leftw' \in WidthRange
       /\ (StepOf("pointermove") /\ dragging) => leftw' \in WidthRange
       /\ DragEnds => \E k \in WidthRange : localStorage'.leftw = TextItem(NatText(k))]_vars

\* a drag moved the width to a limit and its release stored it over a value
\* out of range, and a reload restored it
C26_Witness ==
    /\ ev.type = "load"
    /\ leftw = LeftwMax
    /\ localStorage.leftw = TextItem(NatText(LeftwMax))

\* C27: every drag ends cleanly: the pointer release that ends a drag writes
\* the final width to storage and leaves the splitter without a captured
\* pointer.
C27_DragEndsCleanly ==
    [][DragEnds =>
        (localStorage'.leftw = TextItem(NatText(leftw')) /\ captured' = {})]_vars

\* C30: whenever no drag is in progress, no pointermove or pointerup listener
\* of the splitter is registered on window.
C30_NoListenerLeft ==
    (pc = "sp_ready" /\ ~dragging) => listeners = <<>>

\* ------------------------------------------------------------------------
\* The debounce of the filter box
\* ------------------------------------------------------------------------
\* C28: the filter input is debounced, the last keystroke winning: a
\* keystroke leaves exactly one timer pending and renders nothing, at most
\* one filter timer is pending at any time, and the timer that fires applies
\* the text of the most recent keystroke and renders the tree with it.
C28_DebounceLastWins ==
    [][/\ pc' = "ui_ready" => page'.timer <= 1
       /\ StepOf("input") =>
            (page'.timer = 1 /\ page'.rows = page.rows /\ state' = state)
       /\ StepOf("filter") =>
            (page'.timer = 0 /\ state'.filter = page.q /\ page'.q = page.q
             /\ page' = render([World EXCEPT !.state.filter = page.q, !.page.timer = 0]).page)]_vars

\* a keystroke found the timer of an earlier one pending and replaced it,
\* the filter in force still being an older text
C28_Witness ==
    /\ ev = Event("input", Restarted)
    /\ page.timer = 1
    /\ state.filter # page.q
    /\ state.filter # <<>>

\* ------------------------------------------------------------------------
\* The two flags of md_to_html
\* ------------------------------------------------------------------------
\* the elements with this tag among the first k of the output
TagCount(out, k, tag) == Cardinality({i \in 1..k : out[i].kind = tag})

\* a region is open after k elements: more opened than closed
RegionOpen(out, k, open, close) == TagCount(out, k, open) > TagCount(out, k, close)

\* C29: the two flags of md_to_html are never both set, and in the output
\* written so far no list region and code-block region overlap: wherever
\* one is open the other is closed.
C29_FlagsExclusive ==
    pc \in {"md_loop", "md_done"} =>
        /\ ~(md.in_code /\ md.list_open)
        /\ \A k \in 1..Len(md.out) :
            ~(RegionOpen(md.out, k, "ul", "/ul") /\ RegionOpen(md.out, k, "pre", "/pre"))
        /\ md.list_open = RegionOpen(md.out, Len(md.out), "ul", "/ul")
        /\ pc = "md_loop" => md.in_code = RegionOpen(md.out, Len(md.out), "pre", "/pre")

\* a fence was entered while a list was open, and the list was closed first
C29_Witness ==
    /\ pc = "md_loop"
    /\ md.in_code
    /\ \E i \in 1..(Len(md.out) - 1) :
        /\ md.out[i].kind = "/ul"
        /\ md.out[i + 1].kind = "pre"

====
